---- MODULE Spec2Model ----
(***************************************************************************)
(* Verification model of the cli-frontend template generation engine.      *)
(*                                                                         *)
(* Strings of the program are modelled as sequences of one-character       *)
(* strings, so that prefix/suffix tests, splitting, trimming and           *)
(* replacement are computed character by character as the Rust code does.  *)
(*                                                                         *)
(* The module holds these specifications over one set of variables:        *)
(*   Spec        the generate pipeline (orchestrator + concurrent jobs)    *)
(*   SpecRuns    the generate pipeline run twice on the same inputs        *)
(*   SpecFeature the feature pipeline over an architecture's structure     *)
(*   SpecCond    evaluate_file_condition over merged variables             *)
(*   SpecNaming  the naming transformers applied to bounded inputs         *)
(*   SpecData    create_template_data over declared options               *)
(*   SpecReplace the smart replacements of content and filenames           *)
(*   SpecParse   parse_template_config over bounded manifests              *)
(***************************************************************************)
EXTENDS Integers, Sequences, FiniteSets, TLC

VARIABLES
    \* ---- naming transformers (SpecNaming) ----
    nm_name,        \* the input name
    nm_op,          \* which transformer has been applied
    nm_names,       \* SmartNames / ProcessedNames derived from nm_name
    nm_names2,      \* names derived again from nm_names.hook_name
    nm_text,        \* result of a case conversion of nm_name
    nm_text2,       \* result of converting nm_text again
    \* ---- condition evaluator (SpecCond) ----
    cv_variables,   \* config.variables after merge_variables
    cv_condition,   \* the condition string handed to the evaluator
    cv_result,      \* what the evaluator returned
    cv_panicked,    \* TRUE when the evaluation panicked instead of returning
    cv_display,     \* what format_condition shows for the condition
    cv_pc,          \* "build" while variables are inserted, then "evaluated"
    \* ---- render context (SpecData) ----
    td_name,        \* base name handed to create_template_data
    td_config,      \* TemplateConfig: variables and options_metadata
    td_data,        \* the render context built from them
    td_pc,          \* "build" while the config is filled in, then "built"
    \* ---- sentinel replacement (SpecReplace) ----
    rp_name,        \* base name
    rp_tokens,      \* the tokens the text is made of, separated by blanks
    rp_out,         \* the text after the replacement pass
    rp_op,          \* which replacement pass has been applied
    \* ---- generate_feature (SpecFeature) ----
    ft_name,        \* base name argument of generate_feature
    ft_architecture_name, \* the architecture asked for
    ft_arch_files,  \* the files present in architectures_dir
    ft_unparsable,  \* those of them that are not a valid manifest
    ft_templates,   \* template partial -> files of its directory, if it exists
    ft_arch,        \* the ArchitectureConfig loaded
    ft_pc,          \* position of the orchestrator
    ft_entry,       \* index of the structure entry being generated
    ft_visited,     \* files of the current entry WalkDir has yielded
    ft_tasks,       \* JoinHandles of the current entry, in spawn order
    ft_awaited,     \* number of them already awaited
    ft_job,         \* <<entry, file>> -> position of its render job
    ft_disk,        \* output path -> content written
    ft_result,      \* "none" | "ok" | "err"
    ft_error,       \* what the reported error is about
    \* ---- generate pipeline (Spec) ----
    name,           \* base name argument of generate
    template_type,  \* template_type argument of generate
    template_exists,\* whether templates_dir/template_type exists
    tree,           \* files of the template directory (relative paths)
    manifest,       \* what the template's .conf parses to
    config,         \* TemplateConfig in use
    cli_vars,       \* CLI overrides handed to generate
    pc,             \* position of the orchestrator
    result,         \* "none" | "ok" | "err"
    error,          \* what the reported error is about
    visited,        \* files WalkDir has already yielded
    tasks,          \* spawned jobs, in spawn order (JoinHandles)
    awaited,        \* number of JoinHandles already awaited
    job,            \* per template file: position of its render job
    stamps_seen,    \* the clock/uuid readings held by the contexts built so far
    disk,           \* output path -> content written, for paths written so far
    outdir,         \* TRUE once the output directory exists
    \* ---- manifest parser (SpecParse) ----
    ps_content,     \* the lines of the .conf file
    ps_config,      \* the TemplateConfig parsed from them
    ps_pc,          \* "content" until the file is parsed, then "parsed"
    \* ---- repeated runs of generate (SpecRuns) ----
    run_files       \* per ended run: the output filenames it generated

nmVars == <<nm_name, nm_op, nm_names, nm_names2, nm_text, nm_text2>>
cvVars == <<cv_variables, cv_condition, cv_result, cv_panicked, cv_display, cv_pc>>
tdVars == <<td_name, td_config, td_data, td_pc>>
rpVars == <<rp_name, rp_tokens, rp_out, rp_op>>
ftVars == <<ft_name, ft_architecture_name, ft_arch_files, ft_unparsable, ft_templates,
            ft_arch, ft_pc, ft_entry, ft_visited, ft_tasks, ft_awaited, ft_job,
            ft_disk, ft_result, ft_error>>
genVars == <<name, template_type, template_exists, tree, manifest, config, cli_vars, pc, result,
             error, visited, tasks, awaited, job, stamps_seen, disk, outdir>>
runVars == <<run_files>>
psVars == <<ps_content, ps_config, ps_pc>>
vars == <<nmVars, cvVars, tdVars, rpVars, ftVars, genVars, runVars, psVars>>

\* the variables each specification leaves alone
otherVars == <<nmVars, cvVars, tdVars, rpVars, ftVars, psVars>>
nonGenVars == <<otherVars, runVars>>
nonNmVars == <<cvVars, tdVars, rpVars, ftVars, genVars, runVars, psVars>>
nonCvVars == <<nmVars, tdVars, rpVars, ftVars, genVars, runVars, psVars>>
nonTdVars == <<nmVars, cvVars, rpVars, ftVars, genVars, runVars, psVars>>
nonRpVars == <<nmVars, cvVars, tdVars, ftVars, genVars, runVars, psVars>>
nonFtVars == <<nmVars, cvVars, tdVars, rpVars, genVars, runVars, psVars>>
nonPsVars == <<nmVars, cvVars, tdVars, rpVars, ftVars, genVars, runVars>>

-----------------------------------------------------------------------------
(* Bounds of the model *)

MaxNameLen == 4
MaxVars == 2
MaxFiles == 3
MaxTokens == 3
MaxCondLen == 3

-----------------------------------------------------------------------------
(* Characters and strings *)

LowerSeq == <<"a","b","c","d","e","f","g","h","i","j","k","l","m",
              "n","o","p","q","r","s","t","u","v","w","x","y","z">>
UpperSeq == <<"A","B","C","D","E","F","G","H","I","J","K","L","M",
              "N","O","P","Q","R","S","T","U","V","W","X","Y","Z">>
Lower == {LowerSeq[i] : i \in 1..Len(LowerSeq)}
Upper == {UpperSeq[i] : i \in 1..Len(UpperSeq)}
Digit == {"0","1","2","3","4","5","6","7","8","9"}

is_uppercase(c) == c \in Upper
is_lowercase(c) == c \in Lower
is_numeric(c) == c \in Digit
is_alphabetic(c) == c \in Lower \cup Upper
is_alphanumeric(c) == c \in Lower \cup Upper \cup Digit
is_whitespace(c) == c \in {" "}

IndexIn(c, seq) == CHOOSE i \in 1..Len(seq) : seq[i] = c
char_to_uppercase(c) == IF c \in Lower THEN UpperSeq[IndexIn(c, LowerSeq)] ELSE c
char_to_lowercase(c) == IF c \in Upper THEN LowerSeq[IndexIn(c, UpperSeq)] ELSE c

to_lowercase(s) == [i \in 1..Len(s) |-> char_to_lowercase(s[i])]
to_uppercase(s) == [i \in 1..Len(s) |-> char_to_uppercase(s[i])]

contains_char(s, c) == \E i \in 1..Len(s) : s[i] = c
starts_with(s, p) == Len(s) >= Len(p) /\ SubSeq(s, 1, Len(p)) = p
ends_with(s, p) == Len(s) >= Len(p) /\ SubSeq(s, Len(s) - Len(p) + 1, Len(s)) = p
DropFirst(s, n) == SubSeq(s, n + 1, Len(s))
DropLast(s, n) == SubSeq(s, 1, Len(s) - n)

\* s.split(|c| !c.is_alphanumeric()).filter(|w| !w.is_empty())
RECURSIVE split_words(_, _, _)
split_words(s, cur, acc) ==
    IF s = <<>>
    THEN IF cur = <<>> THEN acc ELSE Append(acc, cur)
    ELSE IF is_alphanumeric(Head(s))
         THEN split_words(Tail(s), Append(cur, Head(s)), acc)
         ELSE split_words(Tail(s), <<>>, IF cur = <<>> THEN acc ELSE Append(acc, cur))

\* .collect::<String>() of a sequence of strings
RECURSIVE concat(_)
concat(ws) == IF ws = <<>> THEN <<>> ELSE Head(ws) \o concat(Tail(ws))

\* .join(sep)
RECURSIVE join(_, _)
join(ws, sep) ==
    IF ws = <<>> THEN <<>>
    ELSE IF Len(ws) = 1 THEN ws[1]
    ELSE ws[1] \o sep \o join(Tail(ws), sep)

\* first.to_uppercase() chained with the rest lowercased
capitalize_word(word) ==
    IF word = <<>> THEN <<>>
    ELSE <<char_to_uppercase(Head(word))>> \o to_lowercase(Tail(word))

\* str::replace(pat, to): leftmost, non-overlapping occurrences
RECURSIVE replace(_, _, _)
replace(s, pat, to) ==
    IF Len(s) < Len(pat) \/ pat = <<>> THEN s
    ELSE IF SubSeq(s, 1, Len(pat)) = pat
         THEN to \o replace(DropFirst(s, Len(pat)), pat, to)
         ELSE <<Head(s)>> \o replace(Tail(s), pat, to)

\* str::trim()
RECURSIVE trim_start(_)
trim_start(s) ==
    IF s # <<>> /\ is_whitespace(Head(s)) THEN trim_start(Tail(s)) ELSE s
RECURSIVE trim_end(_)
trim_end(s) ==
    IF s # <<>> /\ is_whitespace(s[Len(s)]) THEN trim_end(DropLast(s, 1)) ELSE s
trim(s) == trim_end(trim_start(s))

\* str::find(c): 0 when absent, else the 1-based position of the first c
find_char(s, c) ==
    IF contains_char(s, c)
    THEN CHOOSE i \in 1..Len(s) : s[i] = c /\ \A j \in 1..(i - 1) : s[j] # c
    ELSE 0

StrUpTo(chars, n) == UNION {[1..k -> chars] : k \in 0..n}

-----------------------------------------------------------------------------
(* String literals of the program and of the inputs *)

str_use == <<"u","s","e">>
str_context == <<"c","o","n","t","e","x","t">>
str_provider == <<"p","r","o","v","i","d","e","r">>
str_page == <<"p","a","g","e">>
str_Context == <<"C","o","n","t","e","x","t">>
str_Provider == <<"P","r","o","v","i","d","e","r">>
str_Page == <<"P","a","g","e">>
str_true == <<"t","r","u","e">>
str_yes == <<"y","e","s">>
str_one == <<"1">>
str_always == <<"a","l","w","a","y","s">>
str_default == <<"d","e","f","a","u","l","t">>
str_var_ == <<"v","a","r","_">>
str_with == <<"w","i","t","h">>
str_tests == <<"t","e","s","t","s">>
str_with_tests == str_with \o <<"_">> \o str_tests
str_style == <<"s","t","y","l","e">>
str_scss == <<"s","c","s","s">>
str_css == <<"c","s","s">>
str_on == <<"o","n">>
str_false == <<"f","a","l","s","e">>
str_styled_components ==
    <<"s","t","y","l","e","d","_","c","o","m","p","o","n","e","n","t","s">>
str_styled_hyphen_components ==
    <<"s","t","y","l","e","d","-","c","o","m","p","o","n","e","n","t","s">>
str_unknown == <<"i","f","_","t","e","s","t","s">>
str_user == <<"u","s","e","r">>
str_auth == <<"a","u","t","h">>
str_useAuth == <<"u","s","e","A","u","t","h">>
str_AuthContext == <<"A","u","t","h">> \o str_Context
str_hello_world == <<"h","e","l","l","o","_","w","o","r","l","d">>
str_HelloWorld == <<"H","e","l","l","o","W","o","r","l","d">>
str_authcontext == str_auth \o str_context
str_auth_context == str_auth \o <<"_">> \o str_context
str_AuthProvider == <<"A","u","t","h">> \o str_Provider

-----------------------------------------------------------------------------
(* template_engine::naming *)

is_pascal_case(s) ==
    /\ s # <<>>
    /\ is_uppercase(s[1])
    /\ \A i \in 1..Len(s) : is_alphanumeric(s[i])
    /\ ~contains_char(s, "_")
    /\ ~contains_char(s, "-")
    /\ ~contains_char(s, " ")

to_pascal_case(s) ==
    IF is_pascal_case(s) THEN s
    ELSE LET words == split_words(s, <<>>, <<>>)
         IN concat([i \in 1..Len(words) |-> capitalize_word(words[i])])

is_camel_case(s) ==
    /\ s # <<>>
    /\ is_lowercase(s[1])
    /\ \A i \in 1..Len(s) : is_alphanumeric(s[i])
    /\ ~contains_char(s, "_")
    /\ ~contains_char(s, "-")
    /\ ~contains_char(s, " ")

to_camel_case(s) ==
    IF is_camel_case(s) THEN s
    ELSE LET pascal == to_pascal_case(s)
         IN IF pascal = <<>> THEN <<>>
            ELSE <<char_to_lowercase(Head(pascal))>> \o Tail(pascal)

is_snake_case(s) ==
    /\ s # <<>>
    /\ \A i \in 1..Len(s) : is_lowercase(s[i]) \/ is_numeric(s[i]) \/ s[i] = "_"
    /\ ~contains_char(s, "-")
    /\ ~contains_char(s, " ")
    /\ \E i \in 1..Len(s) : is_alphabetic(s[i])

\* the flat_map of to_snake_case: '_' put before every uppercase character
\* but the first, everything lowercased
snake_expand(s) ==
    concat([i \in 1..Len(s) |->
               IF is_uppercase(s[i]) /\ i > 1
               THEN <<"_", char_to_lowercase(s[i])>>
               ELSE <<char_to_lowercase(s[i])>>])

to_snake_case(s) ==
    IF is_snake_case(s) THEN s
    ELSE join(split_words(snake_expand(s), <<>>, <<>>), <<"_">>)

is_kebab_case(s) ==
    /\ s # <<>>
    /\ \A i \in 1..Len(s) : is_lowercase(s[i]) \/ is_numeric(s[i]) \/ s[i] = "-"
    /\ ~contains_char(s, "_")
    /\ ~contains_char(s, " ")
    /\ \E i \in 1..Len(s) : is_alphabetic(s[i])

to_kebab_case(s) ==
    IF is_kebab_case(s) THEN s
    ELSE LET snake == to_snake_case(s)
         IN IF contains_char(snake, "_")
            THEN replace(snake, <<"_">>, <<"-">>)
            ELSE snake

\* the same, with the provider name built from the whole input
process_smart_names_keep_context(n) ==
    LET name_lower == to_lowercase(n)
        hook == IF starts_with(name_lower, str_use) THEN n
                ELSE str_use \o to_pascal_case(n)
        context == IF ends_with(name_lower, str_context) THEN n
                   ELSE to_pascal_case(n) \o str_Context
        provider == IF ends_with(name_lower, str_provider) THEN n
                    ELSE to_pascal_case(n) \o str_Provider
        page == IF ends_with(name_lower, str_page) THEN n
                ELSE to_pascal_case(n) \o str_Page
    IN [hook_name |-> hook, context_name |-> context,
        provider_name |-> provider, page_name |-> page]

process_smart_names(n) ==
    LET name_lower == to_lowercase(n)
        hook == IF starts_with(name_lower, str_use) THEN n
                ELSE str_use \o to_pascal_case(n)
        context == IF ends_with(name_lower, str_context) THEN n
                   ELSE to_pascal_case(n) \o str_Context
        provider ==
            IF ends_with(name_lower, str_provider) THEN n
            ELSE LET base_name ==
                         IF ends_with(name_lower, str_context)
                         THEN to_pascal_case(DropLast(n, 7))
                         ELSE to_pascal_case(n)
                 IN base_name \o str_Provider
        page == IF ends_with(name_lower, str_page) THEN n
                ELSE to_pascal_case(n) \o str_Page
    IN [hook_name |-> hook, context_name |-> context,
        provider_name |-> provider, page_name |-> page]

-----------------------------------------------------------------------------
(* naming::SmartNaming *)

SmartNaming_to_pascal_case(s) ==
    IF s = <<>> THEN <<>>
    ELSE IF (\E i \in 1..Len(s) : is_uppercase(s[i]))
            /\ ~(\E i \in 1..Len(s) : ~is_alphanumeric(s[i]))
         THEN <<char_to_uppercase(Head(s))>> \o Tail(s)
         ELSE LET words == split_words(s, <<>>, <<>>)
              IN concat([i \in 1..Len(words) |-> capitalize_word(words[i])])

SmartNaming_ensure_suffix(text, suffix) ==
    IF ends_with(to_lowercase(text), to_lowercase(suffix)) THEN text
    ELSE text \o suffix

\* the same, without the check of the 4th character
SmartNaming_hook_name_any_use(n) ==
    IF starts_with(to_lowercase(n), str_use) /\ Len(n) > 3
    THEN n
    ELSE str_use \o SmartNaming_to_pascal_case(n)

SmartNaming_hook_name(n) ==
    IF starts_with(to_lowercase(n), str_use) /\ Len(n) > 3
    THEN IF is_uppercase(n[4]) THEN n
         ELSE str_use \o SmartNaming_to_pascal_case(n)
    ELSE str_use \o SmartNaming_to_pascal_case(n)

SmartNaming_process_smart_names(n) ==
    LET pascal_name == SmartNaming_to_pascal_case(n)
    IN [hook_name |-> SmartNaming_hook_name(n),
        context_name |-> SmartNaming_ensure_suffix(pascal_name, str_Context),
        provider_name |-> SmartNaming_ensure_suffix(pascal_name, str_Provider),
        page_name |-> SmartNaming_ensure_suffix(pascal_name, str_Page)]

-----------------------------------------------------------------------------
(* template_engine::generator: condition evaluator *)

\* HashMap<String, String>: a function from the keys present to their values
EmptyMap == [k \in {} |-> <<>>]
map_insert(m, k, v) == [x \in (DOMAIN m) \cup {k} |-> IF x = k THEN v ELSE m[x]]
map_has(m, k) == k \in DOMAIN m

is_truthy(value) == to_lowercase(value) \in {str_true, str_yes, str_one}

\* the same, with the exact-name lookup tried after the split
evaluate_file_condition_split_first(condition, variables) ==
    LET cond == trim(condition)
    IN IF cond \in {str_always, str_default} THEN TRUE
       ELSE IF starts_with(cond, str_var_)
       THEN LET var_part == DropFirst(cond, 4)
                pos == find_char(var_part, "_")
                var_name == SubSeq(var_part, 1, pos - 1)
                raw == DropFirst(var_part, pos)
            IN IF pos > 0 /\ map_has(variables, var_name)
               THEN variables[var_name] \in {replace(raw, <<"_">>, <<"-">>), raw}
               ELSE map_has(variables, var_part) /\ is_truthy(variables[var_part])
       ELSE FALSE

\* the same, comparing the expected value verbatim only
evaluate_file_condition_verbatim(condition, variables) ==
    LET cond == trim(condition)
    IN IF cond \in {str_always, str_default} THEN TRUE
       ELSE IF starts_with(cond, str_var_)
       THEN LET var_part == DropFirst(cond, 4)
                pos == find_char(var_part, "_")
                var_name == SubSeq(var_part, 1, pos - 1)
                raw == DropFirst(var_part, pos)
            IN IF map_has(variables, var_part)
               THEN is_truthy(variables[var_part])
               ELSE pos > 0 /\ map_has(variables, var_name)
                             /\ variables[var_name] = raw
       ELSE FALSE

evaluate_file_condition(condition, variables) ==
    LET cond == trim(condition)
    IN IF cond \in {str_always, str_default} THEN TRUE
       ELSE IF starts_with(cond, str_var_)
       THEN LET var_part == DropFirst(cond, 4)
            IN IF map_has(variables, var_part)
               THEN is_truthy(variables[var_part])
               ELSE LET underscore_pos == find_char(var_part, "_")
                    IN IF underscore_pos > 0
                       THEN LET var_name == SubSeq(var_part, 1, underscore_pos - 1)
                                expected_value_raw == DropFirst(var_part, underscore_pos)
                                expected_value ==
                                    replace(expected_value_raw, <<"_">>, <<"-">>)
                            IN /\ map_has(variables, var_name)
                               /\ \/ variables[var_name] = expected_value
                                  \/ variables[var_name] = expected_value_raw
                       ELSE FALSE
       ELSE FALSE   \* warning on stderr, file skipped

\* a character that takes two bytes in UTF-8
e_acute == "U+00E9"

len_utf8(c) == IF c = e_acute THEN 2 ELSE 1

\* byte offset of the end of the first k characters of s
RECURSIVE byte_offset(_, _)
byte_offset(s, k) ==
    IF k = 0 THEN 0 ELSE byte_offset(s, k - 1) + len_utf8(s[k])

\* s.len(): the length in bytes
byte_len(s) == byte_offset(s, Len(s))

\* str::is_char_boundary(b)
is_char_boundary(s, b) == \E k \in 0..Len(s) : byte_offset(s, k) = b

\* &s[a..b]: panics unless a <= b <= s.len() and both lie on a boundary
str_slice(s, a, b) ==
    IF a <= b /\ b <= byte_len(s) /\ is_char_boundary(s, a) /\ is_char_boundary(s, b)
    THEN LET i == CHOOSE k \in 0..Len(s) : byte_offset(s, k) = a
             j == CHOOSE k \in 0..Len(s) : byte_offset(s, k) = b
         IN [panicked |-> FALSE, str |-> SubSeq(s, i + 1, j)]
    ELSE [panicked |-> TRUE, str |-> <<>>]

\* the same search, answering with the number of characters before the match
str_find_char_position(s, c) ==
    IF contains_char(s, c)
    THEN [found |-> TRUE, pos |-> find_char(s, c) - 1]
    ELSE [found |-> FALSE, pos |-> 0]

\* str::find(c): the byte offset of the first c, when there is one
str_find(s, c) ==
    IF contains_char(s, c)
    THEN [found |-> TRUE, pos |-> byte_offset(s, find_char(s, c) - 1)]
    ELSE [found |-> FALSE, pos |-> 0]

\* Option::unwrap of str::strip_prefix: panics when the prefix is absent
strip_prefix_unwrap(s, prefix) ==
    IF starts_with(s, prefix)
    THEN [panicked |-> FALSE, str |-> DropFirst(s, Len(prefix))]
    ELSE [panicked |-> TRUE, str |-> <<>>]

Returned(b) == [panicked |-> FALSE, value |-> b]
Panicked == [panicked |-> TRUE, value |-> FALSE]

\* evaluate_file_condition with its unwrap and its byte-indexed slices: what
\* the call returns, or that it panicked
evaluate_file_condition_outcome(condition, variables) ==
    LET cond == trim(condition)
    IN IF cond \in {str_always, str_default} THEN Returned(TRUE)
       ELSE IF starts_with(cond, str_var_)
       THEN LET stripped == strip_prefix_unwrap(cond, str_var_)
                var_part == stripped.str
                underscore == str_find(var_part, "_")
                var_name == str_slice(var_part, 0, underscore.pos)
                expected_value_raw ==
                    str_slice(var_part, underscore.pos + 1, byte_len(var_part))
                expected_value ==
                    replace(expected_value_raw.str, <<"_">>, <<"-">>)
            IN IF stripped.panicked THEN Panicked
               ELSE IF map_has(variables, var_part)
               THEN Returned(is_truthy(variables[var_part]))
               ELSE IF underscore.found
               THEN IF var_name.panicked \/ expected_value_raw.panicked
                    THEN Panicked
                    ELSE Returned(/\ map_has(variables, var_name.str)
                                  /\ variables[var_name.str]
                                        \in {expected_value, expected_value_raw.str})
               ELSE Returned(FALSE)
       ELSE Returned(FALSE)   \* warning on stderr, file skipped

\* str::split(c): the pieces between the occurrences of c, empty ones kept
RECURSIVE split_on(_, _, _, _)
split_on(s, c, cur, acc) ==
    IF s = <<>> THEN Append(acc, cur)
    ELSE IF Head(s) = c THEN split_on(Tail(s), c, <<>>, Append(acc, cur))
    ELSE split_on(Tail(s), c, Append(cur, Head(s)), acc)

str_open_var == <<"(","-","-","v","a","r"," ">>
str_stories == <<"s","t","o","r","i","e","s">>

\* format!("(--var {}={})", var_name, value)
format_assignment(var_name, value) ==
    str_open_var \o var_name \o <<"=">> \o value \o <<")">>

\* MULTIWORD_SUFFIXES of format_condition, in their order
MULTIWORD_SUFFIXES ==
    << <<(<<"_">> \o str_styled_components), str_styled_hyphen_components>>,
       <<(<<"_">> \o str_tests), str_true>>,
       <<(<<"_">> \o str_stories), str_true>> >>

\* inspector::format_condition
format_condition(condition) ==
    IF ~starts_with(condition, str_var_)
    THEN <<"(">> \o condition \o <<")">>
    ELSE LET without_prefix == DropFirst(condition, 4)
             known == {i \in 1..Len(MULTIWORD_SUFFIXES) :
                          ends_with(without_prefix, MULTIWORD_SUFFIXES[i][1])}
         IN IF known # {}
            THEN LET i == CHOOSE k \in known : \A j \in known : k <= j
                 IN format_assignment(
                        DropLast(without_prefix, Len(MULTIWORD_SUFFIXES[i][1])),
                        MULTIWORD_SUFFIXES[i][2])
            ELSE LET parts == split_on(without_prefix, "_", <<>>, <<>>)
                 IN IF Len(parts) = 1
                    THEN format_assignment(parts[1], str_true)
                    ELSE format_assignment(
                             join(SubSeq(parts, 1, Len(parts) - 1), <<"_">>),
                             parts[Len(parts)])

\* the NAME and VALUE of a displayed "(--var NAME=VALUE)": NAME runs up to the
\* first '='
shown_assignment(display) ==
    LET inner == SubSeq(display, Len(str_open_var) + 1, Len(display) - 1)
        eq == find_char(inner, "=")
    IN [name |-> SubSeq(inner, 1, eq - 1), value |-> DropFirst(inner, eq)]

\* the merge loop of merge_variables: CLI values inserted over the defaults
RECURSIVE merge_into(_, _)
merge_into(variables, overrides) ==
    IF DOMAIN overrides = {} THEN variables
    ELSE LET k == CHOOSE x \in DOMAIN overrides : TRUE
             rest == [x \in (DOMAIN overrides) \ {k} |-> overrides[x]]
         IN merge_into(map_insert(variables, k, overrides[k]), rest)

-----------------------------------------------------------------------------
(* template_engine::naming / renderer: sentinel replacement, paths, rendering *)

str_FILE_NAME == <<"$","F","I","L","E","_","N","A","M","E">>

\* the same, with the generic $FILE_NAME rule applied first
apply_smart_replacements_generic_first(content, n, smart_names) ==
    LET r0 == replace(content, str_FILE_NAME, n)
        r1 == replace(r0, str_use \o str_FILE_NAME, smart_names.hook_name)
        r2 == replace(r1, str_FILE_NAME \o str_Context, smart_names.context_name)
        r3 == replace(r2, str_FILE_NAME \o str_Provider, smart_names.provider_name)
    IN replace(r3, str_FILE_NAME \o str_Page, smart_names.page_name)

apply_smart_replacements(content, n, smart_names) ==
    LET r1 == replace(content, str_use \o str_FILE_NAME, smart_names.hook_name)
        r2 == replace(r1, str_FILE_NAME \o str_Context, smart_names.context_name)
        r3 == replace(r2, str_FILE_NAME \o str_Provider, smart_names.provider_name)
        r4 == replace(r3, str_FILE_NAME \o str_Page, smart_names.page_name)
    IN replace(r4, str_FILE_NAME, n)

apply_smart_filename_replacements(filename, n, smart_names) ==
    LET r1 == replace(filename, str_use \o str_FILE_NAME, smart_names.hook_name)
        r2 == replace(r1, str_FILE_NAME \o str_Context, smart_names.context_name)
        r3 == replace(r2, str_FILE_NAME \o str_Provider, smart_names.provider_name)
        r4 == replace(r3, str_FILE_NAME \o str_Page, smart_names.page_name)
    IN replace(r4, str_FILE_NAME, to_pascal_case(n))

\* Path::file_name / Path::parent on '/'-separated relative paths
last_slash(path) ==
    IF contains_char(path, "/")
    THEN CHOOSE i \in 1..Len(path) :
             path[i] = "/" /\ \A j \in (i + 1)..Len(path) : path[j] # "/"
    ELSE 0
file_name(path) == DropFirst(path, last_slash(path))
parent(path) == SubSeq(path, 1, last_slash(path))

\* output paths are kept relative to the prepared output directory
determine_output_path(base, n, processed_names) ==
    parent(base) \o apply_smart_filename_replacements(file_name(base), n, processed_names)

\* relative_path.to_str().replace('\\', "/")
normalize_separators(path) == replace(path, <<"\\">>, <<"/">>)

\* serde_json::Value: the String and Bool values the render context holds
JsonString(s) == [kind |-> "String", str |-> s, bool |-> FALSE]
JsonBool(b) == [kind |-> "Bool", str |-> <<>>, bool |-> b]

str_name == <<"n","a","m","e">>
str_pascal_name == <<"p","a","s","c","a","l","_">> \o str_name
str_snake_name == <<"s","n","a","k","e","_">> \o str_name
str_kebab_name == <<"k","e","b","a","b","_">> \o str_name
str_camel_name == <<"c","a","m","e","l","_">> \o str_name
str_upper_name == <<"u","p","p","e","r","_">> \o str_name
str_hook_name == <<"h","o","o","k","_">> \o str_name
str_context_name == str_context \o <<"_">> \o str_name
str_provider_name == str_provider \o <<"_">> \o str_name
str_page_name == str_page \o <<"_">> \o str_name
str_generated == <<"g","e","n","e","r","a","t","e","d">>
str_boolean == <<"b","o","o","l","e","a","n">>
str_enum == <<"e","n","u","m">>
str__is_ == <<"_","i","s","_">>
str__bool == <<"_","b","o","o","l">>

\* the orders in which a HashMap may be iterated
iteration_orders(m) ==
    {o \in [1..Cardinality(DOMAIN m) -> DOMAIN m] :
        \A i, j \in DOMAIN o : o[i] = o[j] => i = j}

\* the same, the current value compared with the sanitized value
RECURSIVE enum_helpers_compare_sanitized(_, _, _, _)
enum_helpers_compare_sanitized(var_name, possible_values, current_value, data_map) ==
    IF possible_values = <<>> THEN data_map
    ELSE LET possible_value == Head(possible_values)
             sanitized_value == replace(possible_value, <<"-">>, <<"_">>)
             helper_name == var_name \o str__is_ \o sanitized_value
             is_match == (current_value = sanitized_value)
         IN enum_helpers_compare_sanitized(var_name, Tail(possible_values), current_value,
                         map_insert(data_map, helper_name, JsonBool(is_match)))

\* for possible_value in &option_meta.possible_values { data_map.insert(..) }
RECURSIVE enum_helpers(_, _, _, _)
enum_helpers(var_name, possible_values, current_value, data_map) ==
    IF possible_values = <<>> THEN data_map
    ELSE LET possible_value == Head(possible_values)
             sanitized_value == replace(possible_value, <<"-">>, <<"_">>)
             helper_name == var_name \o str__is_ \o sanitized_value
             is_match == (current_value = possible_value)
         IN enum_helpers(var_name, Tail(possible_values), current_value,
                         map_insert(data_map, helper_name, JsonBool(is_match)))

\* generate_boolean_helpers, with the options iterated in the given order
RECURSIVE generate_boolean_helpers(_, _, _, _)
generate_boolean_helpers(variables, options_metadata, data_map, order) ==
    IF order = <<>> THEN data_map
    ELSE LET var_name == Head(order)
             option_meta == options_metadata[var_name]
             d1 == IF option_meta.possible_values # <<>> /\ map_has(variables, var_name)
                   THEN enum_helpers(var_name, option_meta.possible_values,
                                     variables[var_name], data_map)
                   ELSE data_map
             d2 == IF option_meta.var_type = str_boolean /\ map_has(variables, var_name)
                   THEN map_insert(d1, var_name \o str__bool,
                                   JsonBool(is_truthy(variables[var_name])))
                   ELSE d1
         IN generate_boolean_helpers(variables, options_metadata, d2, Tail(order))

\* the fields of the json! literal that derive from the name
base_template_data(n) ==
    LET processed_names == process_smart_names(n)
    IN [k \in {str_name, str_pascal_name, str_snake_name, str_kebab_name,
               str_camel_name, str_upper_name, str_hook_name, str_context_name,
               str_provider_name, str_page_name, str_generated} |->
           IF k = str_name THEN JsonString(n)
           ELSE IF k = str_pascal_name THEN JsonString(to_pascal_case(n))
           ELSE IF k = str_snake_name THEN JsonString(to_snake_case(n))
           ELSE IF k = str_kebab_name THEN JsonString(to_kebab_case(n))
           ELSE IF k = str_camel_name THEN JsonString(to_camel_case(n))
           ELSE IF k = str_upper_name THEN JsonString(to_uppercase(n))
           ELSE IF k = str_hook_name THEN JsonString(processed_names.hook_name)
           ELSE IF k = str_context_name THEN JsonString(processed_names.context_name)
           ELSE IF k = str_provider_name THEN JsonString(processed_names.provider_name)
           ELSE IF k = str_page_name THEN JsonString(processed_names.page_name)
           ELSE JsonBool(TRUE)]

\* for (key, value) in &config.variables { data_map.insert(key, String(value)) }
RECURSIVE insert_variables(_, _)
insert_variables(data_map, variables) ==
    IF DOMAIN variables = {} THEN data_map
    ELSE LET k == CHOOSE x \in DOMAIN variables : TRUE
             rest == [x \in (DOMAIN variables) \ {k} |-> variables[x]]
         IN insert_variables(map_insert(data_map, k, JsonString(variables[k])), rest)

\* create_template_data, with config.options_metadata iterated in the given order
create_template_data(n, cfg, order) ==
    generate_boolean_helpers(cfg.variables, cfg.options_metadata,
                             insert_variables(base_template_data(n), cfg.variables),
                             order)

\* the iteration order of a config whose options_metadata has at most one entry
only_order(cfg) == CHOOSE o \in iteration_orders(cfg.options_metadata) : TRUE

\* Handlebars::render_template for the markup the templates here use: literal
\* text renders as itself and {{name}} renders the "name" entry of the data
str_mustache_name == <<"{","{","n","a","m","e","}","}">>
render_template(content, data) ==
    replace(content, str_mustache_name, data[str_name].str)

\* any other "{{" is markup the renderer rejects: RenderingFailed
render_fails(content, data) ==
    LET out == render_template(content, data)
    IN \E i \in 1..(Len(out) - 1) : out[i] = "{" /\ out[i + 1] = "{"

-----------------------------------------------------------------------------
(* The template directories and manifests the pipeline is run on *)

str_dot_conf == <<".","c","o","n","f">>
str_dot_ts == <<".","t","s">>

f_conf == str_dot_conf
f_plain == str_FILE_NAME \o str_dot_ts
f_literal == <<"U","s","e","r">> \o str_dot_ts
f_hook == <<"h","/">> \o str_use \o str_FILE_NAME \o str_dot_ts
f_bad == <<"w","\\","b">> \o str_dot_ts
f_nested_conf == <<"h","/">> \o str_dot_conf

Universe == {f_conf, f_plain, f_literal, f_hook, f_bad, f_nested_conf}

\* content of each template file
template_content(f) ==
    IF f = f_plain THEN str_FILE_NAME \o <<" ">> \o str_mustache_name
    ELSE IF f = f_literal THEN <<"l","i","t","e","r","a","l">>
    ELSE IF f = f_hook THEN str_use \o str_FILE_NAME \o <<"(",")">>
    ELSE IF f = f_bad THEN <<"{","{","n","a","m","e">>
    ELSE <<>>

Trees == {t \in SUBSET Universe : Cardinality(t) <= MaxFiles}

map2(k1, v1, k2, v2) == map_insert(map_insert(EmptyMap, k1, v1), k2, v2)

\* VariableOption { var_type, possible_values, .. }
VariableOption(var_type, possible_values) ==
    [var_type |-> var_type, possible_values |-> possible_values, description |-> <<>>]

\* TemplateConfig::default()
str_development == <<"d","e","v","e","l","o","p","m","e","n","t">>

\* TemplateMetadata::default()
DefaultMetadata == [name |-> <<>>, description |-> <<>>]

\* TemplateConfig::default(), NODE_ENV being unset
DefaultConfig ==
    [variables |-> EmptyMap, file_filters |-> EmptyMap, options_metadata |-> EmptyMap,
     environment |-> str_development, enable_timestamps |-> TRUE, enable_uuid |-> TRUE,
     metadata |-> DefaultMetadata]

Manifests ==
    {DefaultConfig,
     [DefaultConfig EXCEPT
        !.variables = map2(str_with_tests, str_false, str_style, str_scss),
        !.file_filters = map2(f_hook, str_var_ \o str_with_tests,
                              <<"w","/","b">> \o str_dot_ts,
                              str_var_ \o str_style \o <<"_">> \o str_css),
        !.options_metadata =
            map_insert(EmptyMap, str_style,
                       VariableOption(str_enum, <<str_scss, str_css>>))],
     [DefaultConfig EXCEPT
        !.variables = map_insert(EmptyMap, str_style, str_scss),
        !.file_filters = map2(f_plain, str_var_ \o str_style \o <<"_">> \o str_scss,
                              f_literal, str_unknown)]}

CliVars == {EmptyMap, map_insert(EmptyMap, str_with_tests, str_true)}

GenNames == {str_user, str_auth}

\* readings of the clock and of the uuid generator: Utc::now() and
\* Uuid::new_v4() return the pair the invocation's first reading returned, or
\* another one
Stamps == {"first", "other"}

\* the template types asked for, and those templates_dir may hold
str_templates == <<"t","e","m","p","l","a","t","e","s">>
str_component == <<"c","o","m","p","o","n","e","n","t">>
str_missing == <<"m","i","s","s","i","n","g">>
TemplateTypes == {str_component, str_missing}
ExistingTemplates == {str_component}

-----------------------------------------------------------------------------
(* Idle values of the three variable groups *)

NoNames == [hook_name |-> <<>>, context_name |-> <<>>,
            provider_name |-> <<>>, page_name |-> <<>>]
NoConfig == [variables |-> <<>>, file_filters |-> <<>>, options_metadata |-> <<>>]
NoError == [kind |-> "none", at |-> <<>>]

NamingIdle ==
    /\ nm_name = <<>> /\ nm_op = "idle"
    /\ nm_names = NoNames /\ nm_names2 = NoNames
    /\ nm_text = <<>> /\ nm_text2 = <<>>

CondIdle ==
    /\ cv_variables = <<>> /\ cv_condition = <<>>
    /\ cv_result = FALSE /\ cv_panicked = FALSE /\ cv_display = <<>>
    /\ cv_pc = "idle"

DataIdle ==
    /\ td_name = <<>> /\ td_config = NoConfig
    /\ td_data = <<>> /\ td_pc = "idle"

ReplaceIdle ==
    /\ rp_name = <<>> /\ rp_tokens = <<>> /\ rp_out = <<>> /\ rp_op = "idle"

NoArch == [name |-> <<>>, structure |-> <<>>]
NoFeatureError == [kind |-> "none", entry |-> 0]

FeatureIdle ==
    /\ ft_name = <<>> /\ ft_architecture_name = <<>>
    /\ ft_arch_files = {} /\ ft_unparsable = {} /\ ft_templates = <<>>
    /\ ft_arch = NoArch /\ ft_pc = "idle" /\ ft_entry = 0
    /\ ft_visited = {} /\ ft_tasks = <<>> /\ ft_awaited = 0
    /\ ft_job = <<>> /\ ft_disk = <<>>
    /\ ft_result = "none" /\ ft_error = NoFeatureError

GenIdle ==
    /\ name = <<>> /\ template_type = <<>> /\ template_exists = FALSE /\ tree = {}
    /\ manifest = NoConfig /\ config = NoConfig /\ cli_vars = <<>>
    /\ pc = "idle" /\ result = "none" /\ error = NoError
    /\ visited = {} /\ tasks = <<>> /\ awaited = 0
    /\ job = <<>> /\ stamps_seen = {} /\ disk = <<>> /\ outdir = FALSE

\* no run has ended yet
RunIdle == run_files = <<>>

\* no manifest is being parsed
ParseIdle == ps_content = <<>> /\ ps_config = NoConfig /\ ps_pc = "idle"

OtherIdle ==
    NamingIdle /\ CondIdle /\ DataIdle /\ ReplaceIdle /\ FeatureIdle /\ ParseIdle
NonGenIdle == OtherIdle /\ RunIdle
NonNmIdle == CondIdle /\ DataIdle /\ ReplaceIdle /\ FeatureIdle /\ GenIdle /\ RunIdle /\ ParseIdle
NonCvIdle == NamingIdle /\ DataIdle /\ ReplaceIdle /\ FeatureIdle /\ GenIdle /\ RunIdle /\ ParseIdle
NonTdIdle == NamingIdle /\ CondIdle /\ ReplaceIdle /\ FeatureIdle /\ GenIdle /\ RunIdle /\ ParseIdle
NonRpIdle == NamingIdle /\ CondIdle /\ DataIdle /\ FeatureIdle /\ GenIdle /\ RunIdle /\ ParseIdle
NonFtIdle == NamingIdle /\ CondIdle /\ DataIdle /\ ReplaceIdle /\ GenIdle /\ RunIdle /\ ParseIdle
NonPsIdle ==
    NamingIdle /\ CondIdle /\ DataIdle /\ ReplaceIdle /\ FeatureIdle /\ GenIdle /\ RunIdle

-----------------------------------------------------------------------------
(* Spec: TemplateEngine::generate, its orchestrator and its render jobs *)

Finished == {"written", "failed"}

\* the same, looking the rule up by the path as walked, separators untouched
should_generate_raw_path(f, cfg) ==
    IF map_has(cfg.file_filters, f)
    THEN evaluate_file_condition(cfg.file_filters[f], cfg.variables)
    ELSE TRUE

\* the filter decision of process_template_directory for one walked file
should_generate(f, cfg) ==
    LET filename == normalize_separators(f)
    IN IF DOMAIN cfg.file_filters # {}
       THEN IF map_has(cfg.file_filters, filename)
            THEN evaluate_file_condition(cfg.file_filters[filename], cfg.variables)
            ELSE TRUE
       ELSE TRUE

\* what process_template_file_with_config writes for template file f, and where
processed_content(f) ==
    apply_smart_replacements(template_content(f), name, process_smart_names(name))
rendered_content(f) ==
    render_template(processed_content(f), create_template_data(name, config, only_order(config)))
final_output_path(f) ==
    determine_output_path(f, name, process_smart_names(name))

\* templates_dir.join(template_type)
template_dir == str_templates \o <<"/">> \o template_type

Init ==
    /\ name \in GenNames
    /\ template_type \in TemplateTypes
    /\ template_exists \in BOOLEAN
    /\ template_type \notin ExistingTemplates => template_exists = FALSE
    /\ tree \in Trees
    /\ template_exists = FALSE => tree = {}
    /\ manifest \in Manifests
    /\ f_conf \notin tree => manifest = DefaultConfig
    /\ config = NoConfig
    /\ cli_vars \in CliVars
    /\ pc = "validate"
    /\ result = "none"
    /\ error = NoError
    /\ visited = {}
    /\ tasks = <<>>
    /\ awaited = 0
    /\ job = [f \in tree |-> "none"]
    /\ stamps_seen = {}
    /\ disk = EmptyMap
    /\ outdir = FALSE
    /\ NonGenIdle

Fail(kind, at) ==
    /\ result' = "err"
    /\ error' = [kind |-> kind, at |-> at]
    /\ pc' = "done"

\* the same, without the check that the directory exists
ValidateTemplate_no_check ==
    /\ pc = "validate"
    /\ pc' = "load" /\ UNCHANGED <<result, error>>
    /\ UNCHANGED <<name, template_type, template_exists, tree, manifest, config, cli_vars,
                   visited, tasks, awaited, job, disk, outdir, stamps_seen, nonGenVars>>

\* validate_template_exists
ValidateTemplate ==
    /\ pc = "validate"
    /\ IF template_exists
       THEN pc' = "load" /\ UNCHANGED <<result, error>>
       ELSE Fail("NotFound", template_dir)
    /\ UNCHANGED <<name, template_type, template_exists, tree, manifest, config, cli_vars,
                   visited, tasks, awaited, job, disk, outdir, stamps_seen, nonGenVars>>

\* load_template_config: default config without .conf, else read and parse it
LoadTemplateConfig ==
    /\ pc = "load"
    /\ \/ /\ config' = IF f_conf \in tree THEN manifest ELSE DefaultConfig
          /\ pc' = "merge"
          /\ UNCHANGED <<result, error>>
       \/ /\ f_conf \in tree        \* fs::read_to_string fails
          /\ Fail("load", f_conf)
          /\ UNCHANGED config
    /\ UNCHANGED <<name, template_type, template_exists, tree, manifest, cli_vars,
                   visited, tasks, awaited, job, disk, outdir, stamps_seen, nonGenVars>>

\* merge_variables(cli_vars, &mut template_config)
MergeVariables ==
    /\ pc = "merge"
    /\ config' = [config EXCEPT !.variables = merge_into(config.variables, cli_vars)]
    /\ pc' = "prepare"
    /\ UNCHANGED <<name, template_type, template_exists, tree, manifest, cli_vars, result, error,
                   visited, tasks, awaited, job, disk, outdir, stamps_seen, nonGenVars>>

\* the same, going on to the walk when create_dir_all has failed
PrepareOutputDirectory_ignore_error ==
    /\ pc = "prepare"
    /\ \/ outdir' = TRUE
       \/ UNCHANGED outdir
    /\ pc' = "walk"
    /\ UNCHANGED <<result, error>>
    /\ UNCHANGED <<name, template_type, template_exists, tree, manifest, config, cli_vars,
                   visited, tasks, awaited, job, disk, stamps_seen, nonGenVars>>

\* prepare_output_directory: create_dir_all may fail
PrepareOutputDirectory ==
    /\ pc = "prepare"
    /\ \/ /\ outdir' = TRUE
          /\ pc' = "walk"
          /\ UNCHANGED <<result, error>>
       \/ /\ Fail("prepare", <<>>)
          /\ UNCHANGED outdir
    /\ UNCHANGED <<name, template_type, template_exists, tree, manifest, config, cli_vars,
                   visited, tasks, awaited, job, disk, stamps_seen, nonGenVars>>

\* one iteration of the WalkDir loop on a file entry, in directory order
WalkEntry(f) ==
    /\ pc = "walk"
    /\ f \in tree \ visited
    /\ visited' = visited \cup {f}
    /\ IF file_name(f) # str_dot_conf /\ should_generate(f, config)
       THEN /\ tasks' = Append(tasks, f)          \* tokio::spawn
            /\ job' = [job EXCEPT ![f] = "spawned"]
       ELSE UNCHANGED <<tasks, job>>              \* continue
    /\ UNCHANGED <<name, template_type, template_exists, tree, manifest, config, cli_vars, pc,
                   result, error, awaited, disk, outdir, stamps_seen, nonGenVars>>

\* the walk yields an error entry: returned at once, spawned jobs are not awaited
WalkError ==
    /\ pc = "walk"
    /\ Fail("walk", <<>>)
    /\ UNCHANGED <<name, template_type, template_exists, tree, manifest, config, cli_vars,
                   visited, tasks, awaited, job, disk, outdir, stamps_seen, nonGenVars>>

\* the same, with the walk allowed to end before every file was yielded
WalkDone_any_time ==
    /\ pc = "walk"
    /\ pc' = "await"
    /\ UNCHANGED <<name, template_type, template_exists, tree, manifest, config, cli_vars, result,
                   error, visited, tasks, awaited, job, disk, outdir, stamps_seen, nonGenVars>>

\* the walk is exhausted
WalkDone ==
    /\ pc = "walk"
    /\ visited = tree
    /\ pc' = "await"
    /\ UNCHANGED <<name, template_type, template_exists, tree, manifest, config, cli_vars, result,
                   error, visited, tasks, awaited, job, disk, outdir, stamps_seen, nonGenVars>>

\* the same, with a failed job's error dropped instead of returned
AwaitTask_ignore_failure ==
    /\ pc = "await"
    /\ awaited < Len(tasks)
    /\ job[tasks[awaited + 1]] \in Finished
    /\ awaited' = awaited + 1
    /\ UNCHANGED <<name, template_type, template_exists, tree, manifest, config, cli_vars, pc,
                   result, error, visited, tasks, job, disk, outdir, stamps_seen, nonGenVars>>

\* the same, moving on from a JoinHandle whose job is still running
AwaitTask_no_wait ==
    /\ pc = "await"
    /\ awaited < Len(tasks)
    /\ IF job[tasks[awaited + 1]] = "failed"
       THEN Fail("job", tasks[awaited + 1]) /\ UNCHANGED awaited
       ELSE awaited' = awaited + 1 /\ UNCHANGED <<pc, result, error>>
    /\ UNCHANGED <<name, template_type, template_exists, tree, manifest, config, cli_vars,
                   visited, tasks, job, disk, outdir, stamps_seen, nonGenVars>>

\* the same, returning the error of whichever job is seen to have failed
AwaitTask_first_to_fail ==
    /\ pc = "await"
    /\ awaited < Len(tasks)
    /\ \/ \E i \in 1..Len(tasks) :
             /\ job[tasks[i]] = "failed"
             /\ Fail("job", tasks[i]) /\ UNCHANGED awaited
       \/ /\ job[tasks[awaited + 1]] = "written"
          /\ awaited' = awaited + 1 /\ UNCHANGED <<pc, result, error>>
    /\ UNCHANGED <<name, template_type, template_exists, tree, manifest, config, cli_vars,
                   visited, tasks, job, disk, outdir, stamps_seen, nonGenVars>>

\* task.await?? on the next JoinHandle: it resolves once that job has finished
AwaitTask ==
    /\ pc = "await"
    /\ awaited < Len(tasks)
    /\ job[tasks[awaited + 1]] \in Finished
    /\ IF job[tasks[awaited + 1]] = "failed"
       THEN Fail("job", tasks[awaited + 1]) /\ UNCHANGED awaited
       ELSE awaited' = awaited + 1 /\ UNCHANGED <<pc, result, error>>
    /\ UNCHANGED <<name, template_type, template_exists, tree, manifest, config, cli_vars,
                   visited, tasks, job, disk, outdir, stamps_seen, nonGenVars>>

\* all JoinHandles awaited: process_template_directory returns Ok
AwaitDone ==
    /\ pc = "await"
    /\ awaited = Len(tasks)
    /\ pc' = "show"
    /\ UNCHANGED <<name, template_type, template_exists, tree, manifest, config, cli_vars, result,
                   error, visited, tasks, awaited, job, disk, outdir, stamps_seen, nonGenVars>>

\* show_generated_files, then Ok(())
ShowGeneratedFiles ==
    /\ pc = "show"
    /\ \/ result' = "ok" /\ pc' = "done" /\ UNCHANGED error
       \/ Fail("show", <<>>)
    /\ UNCHANGED <<name, template_type, template_exists, tree, manifest, config, cli_vars,
                   visited, tasks, awaited, job, disk, outdir, stamps_seen, nonGenVars>>

\* process_template_file_with_config: read_template
JobRead(f) ==
    /\ job[f] = "spawned"
    /\ \/ job' = [job EXCEPT ![f] = "read"]
       \/ job' = [job EXCEPT ![f] = "failed"]
    /\ UNCHANGED <<name, template_type, template_exists, tree, manifest, config, cli_vars, pc,
                   result, error, visited, tasks, awaited, disk, outdir,
                   stamps_seen, nonGenVars>>

\* create_template_data, apply_smart_replacements, render_template; the
\* context is built by this job from its own Utc::now() and Uuid::new_v4()
JobRender(f) ==
    /\ job[f] = "read"
    /\ \E stamp \in Stamps :
          /\ stamps_seen = {} => stamp = "first"
          /\ stamps_seen' = stamps_seen \cup {stamp}
    /\ job' = [job EXCEPT ![f] =
                 IF render_fails(processed_content(f), create_template_data(name, config, only_order(config)))
                 THEN "failed" ELSE "rendered"]
    /\ UNCHANGED <<name, template_type, template_exists, tree, manifest, config, cli_vars, pc,
                   result, error, visited, tasks, awaited, disk, outdir,
                   nonGenVars>>

\* determine_output_path, write_output: create_dir_all or fs::write may fail
JobWrite(f) ==
    /\ job[f] = "rendered"
    /\ \/ /\ disk' = map_insert(disk, final_output_path(f), rendered_content(f))
          /\ job' = [job EXCEPT ![f] = "written"]
       \/ /\ job' = [job EXCEPT ![f] = "failed"]
          /\ UNCHANGED disk
    /\ UNCHANGED <<name, template_type, template_exists, tree, manifest, config, cli_vars, pc,
                   result, error, visited, tasks, awaited, outdir, stamps_seen, nonGenVars>>

Next ==
    \/ ValidateTemplate
    \/ LoadTemplateConfig
    \/ MergeVariables
    \/ PrepareOutputDirectory
    \/ \E f \in tree : WalkEntry(f)
    \/ WalkError
    \/ WalkDone
    \/ AwaitTask
    \/ AwaitDone
    \/ ShowGeneratedFiles
    \/ \E f \in tree : JobRead(f)
    \/ \E f \in tree : JobRender(f)
    \/ \E f \in tree : JobWrite(f)

Spec == Init /\ [][Next]_vars

-----------------------------------------------------------------------------
(* Claims about generate *)

Spawned == {tasks[i] : i \in 1..Len(tasks)}
SomeJobFailed == \E f \in Spawned : job[f] = "failed"

\* C1: when a scheduled job fails, generate never reports success, and output
\* already written is kept: no step removes a written file, and the step that
\* reports the result leaves every written file as it is.
C1_FailFastNoRollback ==
    /\ [](SomeJobFailed => result # "ok")
    /\ [][\A path \in DOMAIN disk :
              /\ path \in DOMAIN disk'
              /\ result' # result => disk'[path] = disk[path]]_vars

\* C1 witness: an error was reported for a failed job while another job's
\* output is on disk
C1_Witness ==
    /\ result = "err" /\ error.kind = "job"
    /\ \E f \in Spawned :
          /\ job[f] = "written"
          /\ map_has(disk, final_output_path(f))
          /\ disk[final_output_path(f)] = rendered_content(f)

\* C2 (as stated): whenever generate has reported its result, success or
\* error, every job it spawned has finished.
C2_ResultAfterAllJobs ==
    result # "none" => \A f \in Spawned : job[f] \in Finished

\* C2 (amended): success is reported only after every spawned job has finished;
\* a job's error is reported once that job and the jobs spawned before it
\* have finished.
C2_SuccessAfterAllJobs ==
    /\ result = "ok" => \A f \in Spawned : job[f] \in Finished
    /\ (result = "err" /\ error.kind = "job") =>
          /\ job[error.at] = "failed"
          /\ error.at = tasks[awaited + 1]
          /\ \A i \in 1..awaited : job[tasks[i]] \in Finished

\* C2 witness: success reported with several jobs, all of them finished
C2_Witness ==
    /\ result = "ok"
    /\ Len(tasks) >= 2
    /\ \A f \in Spawned : job[f] = "written"

\* the output directory if the jobs complete one after the other in spawn order
RECURSIVE written_in_order(_, _)
written_in_order(ts, d) ==
    IF ts = <<>> THEN d
    ELSE written_in_order(Tail(ts),
             map_insert(d, final_output_path(Head(ts)), rendered_content(Head(ts))))

\* C3: after a successful generate the content of every output file is the
\* same for every interleaving of the jobs: it is what the jobs leave when
\* they complete one after the other in spawn order.
C3_OrderIndependent ==
    result = "ok" => disk = written_in_order(tasks, EmptyMap)

is_recognized(condition) ==
    \/ trim(condition) \in {str_always, str_default}
    \/ starts_with(trim(condition), str_var_)

C18_NotFoundBeforeAnything ==
    (pc # "validate" /\ ~template_exists) =>
        /\ pc = "done"
        /\ result = "err"
        /\ error = [kind |-> "NotFound", at |-> template_dir]
        /\ config = NoConfig
        /\ outdir = FALSE
        /\ tasks = <<>>
        /\ \A f \in tree : job[f] = "none"
        /\ disk = EmptyMap

\* C18 witness: generate was asked for a template type that has no directory
C18_Witness ==
    /\ template_type = str_missing
    /\ result = "err"
    /\ error.kind = "NotFound"
    /\ error.at = str_templates \o <<"/">> \o str_missing

\* the steps of generate, in the order of its body
StepOrder == <<"validate", "load", "merge", "prepare", "walk", "await", "show", "done">>
step_index(p) == CHOOSE i \in 1..Len(StepOrder) : StepOrder[i] = p

\* the variables of the manifest in use, before the CLI overrides
default_variables ==
    IF f_conf \in tree THEN manifest.variables ELSE DefaultConfig.variables

\* C24: every execution of generate performs its steps in this order, and a
\* failure in a step prevents all later steps: validate that the template
\* exists, load and parse the manifest, merge the CLI variables over the
\* defaults, prepare the output directory, enumerate the files while
\* evaluating conditions on the merged variables and scheduling jobs, await
\* the jobs, and only after all awaited jobs succeeded list the generated
\* filenames.
C24_StepsInOrder ==
    \* each step is followed by the next one, or by the end with an error
    /\ [][pc' # pc =>
            \/ step_index(pc') = step_index(pc) + 1 /\ result' \in {"none", "ok"}
            \/ pc' = "done" /\ result' = "err"]_vars
    \* once generate has returned no step of it runs
    /\ [][pc = "done" =>
            UNCHANGED <<pc, result, error, config, outdir, visited, tasks, awaited>>]_vars
    \* each step does its work in its turn only
    /\ [][/\ config' # config => pc \in {"load", "merge"}
          /\ outdir' # outdir => pc = "prepare"
          /\ (visited' # visited \/ tasks' # tasks) => pc = "walk"
          /\ awaited' # awaited => pc = "await"
          /\ result' = "ok" => pc = "show"]_vars
    \* the walk runs in a prepared directory, on the merged variables
    /\ [](pc \in {"walk", "await", "show"} =>
            /\ template_exists /\ outdir
            /\ DOMAIN config.variables = DOMAIN default_variables \cup DOMAIN cli_vars
            /\ \A k \in DOMAIN config.variables :
                   config.variables[k] = IF k \in DOMAIN cli_vars THEN cli_vars[k]
                                         ELSE default_variables[k]
            /\ \A f \in Spawned :
                   file_name(f) # str_dot_conf /\ should_generate(f, config))
    \* the listing follows the success of every awaited job
    /\ [](pc = "show" \/ result = "ok" =>
            /\ visited = tree /\ awaited = Len(tasks)
            /\ \A f \in Spawned : job[f] = "written")

\* C24 witness: the output directory could not be prepared, after the CLI
\* value replaced the default: nothing was enumerated, scheduled or listed
C24_Witness ==
    /\ pc = "done" /\ result = "err" /\ error.kind = "prepare"
    /\ map_has(default_variables, str_with_tests)
    /\ default_variables[str_with_tests] = str_false
    /\ config.variables[str_with_tests] = str_true
    /\ tree # {} /\ visited = {} /\ tasks = <<>> /\ ~outdir

\* the jobs that have failed, and the place of a job in spawn order
FailedJobs == {f \in Spawned : job[f] = "failed"}
spawn_index(f) == CHOOSE i \in 1..Len(tasks) : tasks[i] = f

\* C27 (as stated): when several file jobs of one generate invocation have
\* failed, the error returned is that of the failing job spawned earliest in
\* enumeration order, whatever the order in which the jobs fail or finish.
C27_EarliestFailureReturned ==
    (result = "err" /\ Cardinality(FailedJobs) >= 2) =>
        /\ error.kind = "job"
        /\ error.at \in FailedJobs
        /\ \A f \in FailedJobs : spawn_index(error.at) <= spawn_index(f)

\* C27 (amended): when generate returns the error of a file job, that job is
\* the failing job spawned earliest, whatever the order in which the jobs fail
\* or finish; when jobs have failed and the error returned is not a job's, it
\* is the error of the directory walk.
C27_EarliestFailureOrWalkError ==
    /\ (result = "err" /\ error.kind = "job") =>
          /\ error.at \in FailedJobs
          /\ \A f \in FailedJobs : spawn_index(error.at) <= spawn_index(f)
    /\ (result = "err" /\ error.kind # "job" /\ FailedJobs # {}) =>
          error.kind = "walk"

\* C27 witness: two jobs failed and the error returned is that of the one
\* spawned first
C27_Witness ==
    /\ result = "err" /\ error.kind = "job"
    /\ Len(tasks) >= 2
    /\ error.at = tasks[1]
    /\ job[tasks[2]] = "failed"

\* C30: all files rendered in one generate invocation see the same uuid and
\* timestamp values in their render context: the values are read once per
\* invocation, so the contexts built by the jobs hold one reading at most.
C30_OneReadingPerInvocation ==
    Cardinality(stamps_seen) <= 1

-----------------------------------------------------------------------------
(* SpecRuns: generate run again on the same inputs *)

MaxRuns == 2

RunsUniverse == {f_conf, f_plain, f_hook, f_bad}

\* the template directories run twice: with a manifest, or with a template
\* that fails to render
InitRuns ==
    /\ Init
    /\ name = str_user
    /\ tree \subseteq RunsUniverse
    /\ f_conf \in tree => f_bad \notin tree

\* generate has returned and main returns with its result: the process ends,
\* the runtime drops the jobs that have not finished, and the command is run
\* again on the same inputs with an output directory of its own
ProcessExit ==
    /\ pc = "done"
    /\ Len(run_files) < MaxRuns
    /\ run_files' = Append(run_files, [result |-> result, error |-> error,
                                       files |-> DOMAIN disk])
    /\ pc' = IF Len(run_files) + 1 < MaxRuns THEN "validate" ELSE "exited"
    /\ config' = NoConfig
    /\ result' = "none"
    /\ error' = NoError
    /\ visited' = {}
    /\ tasks' = <<>>
    /\ awaited' = 0
    /\ job' = [f \in tree |-> "none"]
    /\ stamps_seen' = {}
    /\ disk' = EmptyMap
    /\ outdir' = FALSE
    /\ UNCHANGED <<name, template_type, template_exists, tree, manifest, cli_vars,
                   otherVars>>

NextRuns ==
    \/ ValidateTemplate
    \/ LoadTemplateConfig
    \/ MergeVariables
    \/ PrepareOutputDirectory
    \/ \E f \in tree : WalkEntry(f)
    \/ WalkError
    \/ WalkDone
    \/ AwaitTask
    \/ AwaitDone
    \/ ShowGeneratedFiles
    \/ \E f \in tree : JobRead(f)
    \/ \E f \in tree : JobRender(f)
    \/ \E f \in tree : JobWrite(f)
    \/ ProcessExit

SpecRuns == InitRuns /\ [][NextRuns]_vars

\* C23 (as stated): two runs of generate on the same template tree, manifest,
\* base name and variable overrides have generated the same set of output
\* filenames, whatever the scheduling of their jobs; the two runs compared
\* are runs that ended alike, both with success or both with the error of the
\* same job.
C23_SameFilenamesEveryRun ==
    (/\ Len(run_files) = MaxRuns
     /\ run_files[1].result = run_files[2].result
     /\ run_files[1].error = run_files[2].error
     /\ run_files[1].error.kind \in {"none", "job"})
        => run_files[1].files = run_files[2].files

\* C23 (amended): two runs on the same inputs that both report success have
\* generated the same set of output filenames; a run that reports an error
\* has generated a subset of it.
C23_SameFilenamesOnSuccess ==
    \A i, j \in 1..Len(run_files) :
        run_files[i].result = "ok" =>
            /\ run_files[j].files \subseteq run_files[i].files
            /\ run_files[j].result = "ok" => run_files[j].files = run_files[i].files

\* C23 witness: two successful runs that generated the same two files
C23_Witness ==
    /\ Len(run_files) = MaxRuns
    /\ run_files[1].result = "ok" /\ run_files[2].result = "ok"
    /\ run_files[1].files = run_files[2].files
    /\ Cardinality(run_files[1].files) >= 2

-----------------------------------------------------------------------------
(* SpecNaming: the naming transformers applied to bounded inputs *)

NameChars == {"u", "s", "e", "U", "1", "_", "-"}

ExampleNames == {str_user, str_auth, str_useAuth, str_AuthContext,
                 str_hello_world, str_HelloWorld,
                 str_authcontext, str_auth_context, str_AuthProvider}

NameInputs == StrUpTo(NameChars, MaxNameLen) \cup ExampleNames

InitNaming ==
    /\ nm_name \in NameInputs
    /\ nm_op = "input"
    /\ nm_names = NoNames /\ nm_names2 = NoNames
    /\ nm_text = <<>> /\ nm_text2 = <<>>
    /\ NonNmIdle

\* template_engine::naming::process_smart_names(name)
DeriveSmartNames ==
    /\ nm_op = "input"
    /\ nm_op' = "process_smart_names"
    /\ nm_names' = process_smart_names(nm_name)
    /\ UNCHANGED <<nm_name, nm_names2, nm_text, nm_text2, nonNmVars>>

\* SmartNaming::process_smart_names(name)
DeriveProcessedNames ==
    /\ nm_op = "input"
    /\ nm_op' = "SmartNaming"
    /\ nm_names' = SmartNaming_process_smart_names(nm_name)
    /\ UNCHANGED <<nm_name, nm_names2, nm_text, nm_text2, nonNmVars>>

\* SmartNaming::process_smart_names applied to an already derived hook name
RederiveProcessedNames ==
    /\ nm_op = "SmartNaming"
    /\ nm_op' = "SmartNaming_again"
    /\ nm_names2' = SmartNaming_process_smart_names(nm_names.hook_name)
    /\ UNCHANGED <<nm_name, nm_names, nm_text, nm_text2, nonNmVars>>

\* template_engine::naming::to_pascal_case(name)
ConvertPascal ==
    /\ nm_op = "input"
    /\ nm_op' = "to_pascal_case"
    /\ nm_text' = to_pascal_case(nm_name)
    /\ UNCHANGED <<nm_name, nm_names, nm_names2, nm_text2, nonNmVars>>

\* to_pascal_case applied to its own result
ReconvertPascal ==
    /\ nm_op = "to_pascal_case"
    /\ nm_op' = "to_pascal_case_again"
    /\ nm_text2' = to_pascal_case(nm_text)
    /\ UNCHANGED <<nm_name, nm_names, nm_names2, nm_text, nonNmVars>>

\* template_engine::naming::to_camel_case(name)
ConvertCamel ==
    /\ nm_op = "input"
    /\ nm_op' = "to_camel_case"
    /\ nm_text' = to_camel_case(nm_name)
    /\ UNCHANGED <<nm_name, nm_names, nm_names2, nm_text2, nonNmVars>>

\* template_engine::naming::to_snake_case(name)
ConvertSnake ==
    /\ nm_op = "input"
    /\ nm_op' = "to_snake_case"
    /\ nm_text' = to_snake_case(nm_name)
    /\ UNCHANGED <<nm_name, nm_names, nm_names2, nm_text2, nonNmVars>>

\* template_engine::naming::to_kebab_case(name)
ConvertKebab ==
    /\ nm_op = "input"
    /\ nm_op' = "to_kebab_case"
    /\ nm_text' = to_kebab_case(nm_name)
    /\ UNCHANGED <<nm_name, nm_names, nm_names2, nm_text2, nonNmVars>>

\* to_kebab_case applied to the snake_case form with '_' replaced by '-'
KebabOfSnake ==
    /\ nm_op = "to_snake_case"
    /\ nm_op' = "kebab_of_snake"
    /\ nm_text2' = to_kebab_case(replace(nm_text, <<"_">>, <<"-">>))
    /\ UNCHANGED <<nm_name, nm_names, nm_names2, nm_text, nonNmVars>>

NextNaming ==
    \/ DeriveSmartNames
    \/ DeriveProcessedNames
    \/ RederiveProcessedNames
    \/ ConvertPascal
    \/ ReconvertPascal
    \/ ConvertCamel
    \/ ConvertSnake
    \/ ConvertKebab
    \/ KebabOfSnake

SpecNaming == InitNaming /\ [][NextNaming]_vars

-----------------------------------------------------------------------------
(* Claims about the naming transformers *)

\* C7: template_engine::naming::process_smart_names maps "user" to
\* hookName "useUser", contextName "UserContext", providerName "UserProvider",
\* pageName "UserPage"; and every input that starts with "use" whose 4th
\* character is missing or not uppercase gets hookName "use" + PascalCase(input).
C7_UserBecomesUseUser ==
    nm_op = "process_smart_names" =>
        /\ nm_name = str_user =>
              nm_names = [hook_name |-> <<"u","s","e","U","s","e","r">>,
                          context_name |-> <<"U","s","e","r">> \o str_Context,
                          provider_name |-> <<"U","s","e","r">> \o str_Provider,
                          page_name |-> <<"U","s","e","r">> \o str_Page]
        /\ (starts_with(nm_name, str_use)
              /\ (Len(nm_name) < 4 \/ ~is_uppercase(nm_name[4])))
             => nm_names.hook_name = str_use \o to_pascal_case(nm_name)

\* C8: SmartNaming::process_smart_names keeps the input as hookName exactly
\* when it starts with "use" (case-insensitively) and its 4th character is
\* uppercase; otherwise hookName is "use" + PascalCase(input); "useAuth" stays
\* "useAuth" and "user" becomes "useUser".
C8_HookNameRule ==
    nm_op = "SmartNaming" =>
        LET keep == /\ starts_with(to_lowercase(nm_name), str_use)
                    /\ Len(nm_name) >= 4
                    /\ is_uppercase(nm_name[4])
        IN /\ keep <=> (nm_names.hook_name = nm_name)
           /\ ~keep => nm_names.hook_name
                          = str_use \o SmartNaming_to_pascal_case(nm_name)
           /\ nm_name = str_useAuth => nm_names.hook_name = str_useAuth
           /\ nm_name = str_user
                 => nm_names.hook_name = <<"u","s","e","U","s","e","r">>

\* C8 witness: "user", which starts with "use" but has no uppercase 4th
\* character, has been given the prefix
C8_Witness ==
    /\ nm_op = "SmartNaming"
    /\ nm_name = str_user
    /\ nm_names.hook_name = <<"u","s","e","U","s","e","r">>

\* C9: deriving hookName again from an already derived hookName yields the
\* same string.
C9_HookNameStable ==
    nm_op = "SmartNaming_again" => nm_names2.hook_name = nm_names.hook_name

\* C10: template_engine::naming::to_pascal_case is idempotent.
C10_PascalIdempotent ==
    nm_op = "to_pascal_case_again" => nm_text2 = nm_text

\* s without its suffix, when it ends with it
strip_suffix(s, suffix) ==
    IF ends_with(s, suffix) THEN DropLast(s, Len(suffix)) ELSE s

\* the same, the suffix (given in lowercase) compared case-insensitively
strip_suffix_ignore_case(s, suffix) ==
    IF ends_with(to_lowercase(s), suffix) THEN DropLast(s, Len(suffix)) ELSE s

\* C21 (as stated): providerName is the input unchanged if it ends with
\* "provider" case-insensitively; otherwise it is the PascalCase form of the
\* input with a trailing "Context" (so spelled) stripped, followed by
\* "Provider", the suffix being stripped before or after the conversion.
C21_ProviderStripsContext ==
    nm_op = "process_smart_names" =>
        IF ends_with(to_lowercase(nm_name), str_provider)
        THEN nm_names.provider_name = nm_name
        ELSE nm_names.provider_name \in
                 {to_pascal_case(strip_suffix(nm_name, str_Context)) \o str_Provider,
                  strip_suffix(to_pascal_case(nm_name), str_Context) \o str_Provider}

\* C21 (amended): providerName is the input unchanged if it ends with
\* "provider" case-insensitively; otherwise it is the PascalCase form of what
\* is left of the input once a trailing "context", in any letter case, is
\* stripped from it, followed by "Provider"; "AuthContext" gives "AuthProvider".
C21_ProviderStripsContextAnyCase ==
    nm_op = "process_smart_names" =>
        /\ IF ends_with(to_lowercase(nm_name), str_provider)
           THEN nm_names.provider_name = nm_name
           ELSE nm_names.provider_name =
                    to_pascal_case(strip_suffix_ignore_case(nm_name, str_context))
                        \o str_Provider
        /\ nm_name = str_AuthContext => nm_names.provider_name = str_AuthProvider

\* C21 witness: the lowercase input "authcontext" has lost its suffix
C21_Witness ==
    /\ nm_op = "process_smart_names"
    /\ nm_name = str_authcontext
    /\ nm_names.provider_name = str_AuthProvider

-----------------------------------------------------------------------------
(* Claims about the case conversions *)

\* C11: for every string x, to_kebab_case of to_snake_case(x) with every '_'
\* replaced by '-' equals to_kebab_case(x).
C11_KebabOfSnakeRoundTrip ==
    nm_op = "kebab_of_snake" => nm_text2 = to_kebab_case(nm_name)

\* the characters of s other than letters and digits
separators(s) == {s[i] : i \in {j \in 1..Len(s) : ~is_alphanumeric(s[j])}}

\* every non-alphanumeric character of s stands alone between two
\* alphanumeric characters
single_between_words(s) ==
    \A i \in 1..Len(s) :
        ~is_alphanumeric(s[i]) =>
            /\ 1 < i /\ i < Len(s)
            /\ is_alphanumeric(s[i - 1])
            /\ is_alphanumeric(s[i + 1])

\* C20: each of the four conversions drops the non-alphanumeric characters of
\* its input: a PascalCase or camelCase result has none, a snake_case result
\* has only single '_' between two words, a kebab-case result only single '-'
\* between two words; and the empty input gives the empty output.
C20_SeparatorsDropped ==
    /\ nm_op \in {"to_pascal_case", "to_camel_case"} => separators(nm_text) = {}
    /\ nm_op = "to_snake_case" =>
          separators(nm_text) \subseteq {"_"} /\ single_between_words(nm_text)
    /\ nm_op = "to_kebab_case" =>
          separators(nm_text) \subseteq {"-"} /\ single_between_words(nm_text)
    /\ (nm_op \in {"to_pascal_case", "to_camel_case", "to_snake_case",
                   "to_kebab_case"} /\ nm_name = <<>>) => nm_text = <<>>

-----------------------------------------------------------------------------
(* SpecData: create_template_data over bounded configurations *)

\* variable names: an enum option, a boolean option, and two variables named
\* like fields of the render context
DataVarNames == {str_style, str_with_tests, str_name, str_hook_name}

DataVarValues == {str_scss, str_styled_hyphen_components, str_styled_components,
                  str_true, str_false}

OptionVarNames == {str_style, str_with_tests}

\* lists written as {var}_options in a manifest
OptionLists == {<<str_scss, str_css, str_styled_hyphen_components>>,
                <<str_styled_hyphen_components, str_styled_components>>}

OptionTypes == {str_boolean, str_enum}

InitData ==
    /\ td_name \in GenNames
    /\ td_config = DefaultConfig
    /\ td_data = <<>>
    /\ td_pc = "build"
    /\ NonTdIdle

\* options_metadata.entry(var_name).or_default()
entry_or_default(options_metadata, var_name) ==
    IF map_has(options_metadata, var_name) THEN options_metadata[var_name]
    ELSE VariableOption(<<>>, <<>>)

\* config.variables.insert(key, value): a manifest default or a CLI override
SetVariable(k, v) ==
    /\ td_pc = "build"
    /\ map_has(td_config.variables, k)
          \/ Cardinality(DOMAIN td_config.variables) < MaxVars
    /\ td_config' = [td_config EXCEPT !.variables = map_insert(@, k, v)]
    /\ UNCHANGED <<td_name, td_data, td_pc, nonTdVars>>

\* parse_options_section on a "{var}_options" key
DeclareOptions(var_name, possible_values) ==
    /\ td_pc = "build"
    /\ td_config' = [td_config EXCEPT !.options_metadata =
           map_insert(@, var_name,
                      [entry_or_default(@, var_name)
                          EXCEPT !.possible_values = possible_values])]
    /\ UNCHANGED <<td_name, td_data, td_pc, nonTdVars>>

\* parse_options_section on a "{var}_type" key
DeclareType(var_name, var_type) ==
    /\ td_pc = "build"
    /\ td_config' = [td_config EXCEPT !.options_metadata =
           map_insert(@, var_name,
                      [entry_or_default(@, var_name) EXCEPT !.var_type = var_type])]
    /\ UNCHANGED <<td_name, td_data, td_pc, nonTdVars>>

\* create_template_data(name, &config)
BuildData(order) ==
    /\ td_pc = "build"
    /\ td_pc' = "built"
    /\ td_data' = create_template_data(td_name, td_config, order)
    /\ UNCHANGED <<td_name, td_config, nonTdVars>>

NextData ==
    \/ \E k \in DataVarNames, v \in DataVarValues : SetVariable(k, v)
    \/ \E x \in OptionVarNames, l \in OptionLists : DeclareOptions(x, l)
    \/ \E x \in OptionVarNames, ty \in OptionTypes : DeclareType(x, ty)
    \/ \E order \in iteration_orders(td_config.options_metadata) : BuildData(order)

SpecData == InitData /\ [][NextData]_vars

-----------------------------------------------------------------------------
(* Claims about the render context *)

name_fields ==
    {str_name, str_pascal_name, str_camel_name, str_snake_name, str_kebab_name,
     str_hook_name, str_context_name, str_provider_name, str_page_name}

\* C12: whatever variables are supplied, the name fields of the render context
\* hold the values derived from the base name.
C12_NameFieldsNotOverwritten ==
    td_pc = "built" =>
        \A k \in name_fields :
            map_has(td_data, k) /\ td_data[k] = base_template_data(td_name)[k]

\* the key "{var}_is_{v}" with the hyphens of v replaced by underscores
is_key(var_name, v) == var_name \o str__is_ \o replace(v, <<"-">>, <<"_">>)

\* C13: for every option with allowed values the render context holds, per
\* allowed value v, a boolean "{var}_is_{v}" that is true iff the variable's
\* current value is v; and per boolean-typed variable with a value a boolean
\* "{var}_bool" equal to the truthiness of that value.
C13_BooleanHelpers ==
    td_pc = "built" =>
        \A x \in DOMAIN td_config.options_metadata :
            LET meta == td_config.options_metadata[x]
                variables == td_config.variables
            IN /\ \A i \in 1..Len(meta.possible_values) :
                      LET v == meta.possible_values[i]
                      IN /\ map_has(td_data, is_key(x, v))
                         /\ td_data[is_key(x, v)]
                               = JsonBool(map_has(variables, x) /\ variables[x] = v)
               /\ (meta.var_type = str_boolean /\ map_has(variables, x)) =>
                      /\ map_has(td_data, x \o str__bool)
                      /\ td_data[x \o str__bool]
                            = JsonBool(to_lowercase(variables[x])
                                          \in {str_true, str_yes, str_one})

\* the "{var}_is_{v}" keys of variable x, and those the context holds as true
is_keys(x) ==
    LET possible_values == td_config.options_metadata[x].possible_values
    IN {is_key(x, possible_values[i]) : i \in 1..Len(possible_values)}
true_is_keys(x) == {k \in is_keys(x) : td_data[k] = JsonBool(TRUE)}

\* the variables that declare allowed values and have a value
enum_variables ==
    {x \in DOMAIN td_config.options_metadata :
        /\ td_config.options_metadata[x].possible_values # <<>>
        /\ map_has(td_config.variables, x)}

-----------------------------------------------------------------------------
(* SpecReplace: the raw-text substitution pass over texts made of tokens *)

tok_hook == str_use \o str_FILE_NAME
tok_context == str_FILE_NAME \o str_Context
tok_provider == str_FILE_NAME \o str_Provider
tok_page == str_FILE_NAME \o str_Page
tok_generic == str_FILE_NAME

\* the sentinel tokens, a blank and a letter
Tokens == {tok_hook, tok_context, tok_provider, tok_page, tok_generic,
           <<" ">>, <<"x">>}

TokenSeqs == UNION {[1..k -> Tokens] : k \in 0..MaxTokens}

ReplaceNames == GenNames \cup {str_useAuth, str_AuthContext}

InitReplace ==
    /\ rp_name \in ReplaceNames
    /\ rp_tokens \in TokenSeqs
    /\ rp_out = <<>>
    /\ rp_op = "input"
    /\ NonRpIdle

\* apply_smart_replacements(content, name, &process_smart_names(name))
ReplaceInContent ==
    /\ rp_op = "input"
    /\ rp_op' = "content"
    /\ rp_out' = apply_smart_replacements(concat(rp_tokens), rp_name,
                                          process_smart_names(rp_name))
    /\ UNCHANGED <<rp_name, rp_tokens, nonRpVars>>

\* apply_smart_filename_replacements(filename, name, &process_smart_names(name))
ReplaceInFilename ==
    /\ rp_op = "input"
    /\ rp_op' = "filename"
    /\ rp_out' = apply_smart_filename_replacements(concat(rp_tokens), rp_name,
                                                   process_smart_names(rp_name))
    /\ UNCHANGED <<rp_name, rp_tokens, nonRpVars>>

NextReplace ==
    \/ ReplaceInContent
    \/ ReplaceInFilename

SpecReplace == InitReplace /\ [][NextReplace]_vars

-----------------------------------------------------------------------------
(* Claims about the substitution pass *)

\* what one token stands for; generic is what $FILE_NAME alone becomes
token_value(tok, n, generic) ==
    LET smart_names == process_smart_names(n)
    IN IF tok = tok_hook THEN smart_names.hook_name
       ELSE IF tok = tok_context THEN smart_names.context_name
       ELSE IF tok = tok_provider THEN smart_names.provider_name
       ELSE IF tok = tok_page THEN smart_names.page_name
       ELSE IF tok = tok_generic THEN generic
       ELSE tok

\* C19: in a text made of sentinel tokens and other characters every specific
\* token becomes its own smart name and only a bare $FILE_NAME becomes the
\* raw name (file content) or the PascalCase name (file names).
C19_SpecificBeforeGeneric ==
    /\ rp_op = "content" =>
          rp_out = concat([i \in 1..Len(rp_tokens) |->
                              token_value(rp_tokens[i], rp_name, rp_name)])
    /\ rp_op = "filename" =>
          rp_out = concat([i \in 1..Len(rp_tokens) |->
                              token_value(rp_tokens[i], rp_name,
                                          to_pascal_case(rp_name))])

\* C19 witness: a text with a specific token next to a bare $FILE_NAME has
\* been substituted
C19_Witness ==
    /\ rp_op = "content"
    /\ rp_name = str_auth
    /\ rp_tokens = <<tok_generic, tok_page, tok_hook>>
    /\ rp_out = str_auth \o <<"A","u","t","h">> \o str_Page \o str_useAuth

-----------------------------------------------------------------------------
(* SpecCond: evaluate_file_condition over the merged variables *)

\* variable names: manifest keys are trimmed, so no surrounding whitespace
VarNames == {str_with, str_with_tests, str_style}

VarValues == {str_true, <<"T","r","u","e">>, <<"Y","E","S">>, str_one,
              str_false, str_scss, str_css, str_tests, str_on,
              str_styled_hyphen_components, str_styled_components}

\* expected values written in conditions
CondValues == {str_scss, str_css, str_tests, str_on, str_true,
               str_styled_components, str_styled_hyphen_components,
               str_scss \o <<" ">>}

\* short conditions with underscores and a two-byte character at every place
ShortConditions ==
    StrUpTo({"_", "v", " "}, MaxCondLen - 1)
    \cup {str_var_ \o x : x \in StrUpTo({"_", "w", e_acute}, MaxCondLen)}

Conditions ==
    {str_always, str_default, <<" ">> \o str_always \o <<" ">>, str_unknown,
     str_var_}
    \cup {str_var_ \o x : x \in VarNames}
    \cup {str_var_ \o n \o <<"_">> \o v : n \in VarNames, v \in CondValues}
    \cup ShortConditions

InitCond ==
    /\ cv_variables = EmptyMap
    /\ cv_condition = <<>>
    /\ cv_result = FALSE
    /\ cv_panicked = FALSE
    /\ cv_display = <<>>
    /\ cv_pc = "build"
    /\ NonCvIdle

\* config.variables.insert(key, value): a manifest default or a CLI override
InsertVariable(k, v) ==
    /\ cv_pc = "build"
    /\ map_has(cv_variables, k) \/ Cardinality(DOMAIN cv_variables) < MaxVars
    /\ cv_variables' = map_insert(cv_variables, k, v)
    /\ UNCHANGED <<cv_condition, cv_result, cv_panicked, cv_display, cv_pc, nonCvVars>>

\* evaluate_file_condition(condition, &config.variables)
EvaluateCondition(c) ==
    /\ cv_pc = "build"
    /\ cv_pc' = "evaluated"
    /\ cv_condition' = c
    /\ cv_result' = evaluate_file_condition(c, cv_variables)
    /\ cv_panicked' = evaluate_file_condition_outcome(c, cv_variables).panicked
    /\ UNCHANGED <<cv_variables, cv_display, nonCvVars>>

\* the condition as describe shows it, then evaluated with the assignment
\* shown as the only variable set
DescribeCondition(c) ==
    /\ cv_pc = "build"
    /\ cv_variables = EmptyMap
    /\ starts_with(c, str_var_)
    /\ cv_pc' = "described"
    /\ cv_condition' = c
    /\ cv_display' = format_condition(c)
    /\ LET shown == shown_assignment(format_condition(c))
           only == map_insert(EmptyMap, shown.name, shown.value)
       IN /\ cv_variables' = only
          /\ cv_result' = evaluate_file_condition(c, only)
          /\ cv_panicked' = evaluate_file_condition_outcome(c, only).panicked
    /\ UNCHANGED nonCvVars

NextCond ==
    \/ \E k \in VarNames, v \in VarValues : InsertVariable(k, v)
    \/ \E c \in Conditions : EvaluateCondition(c)
    \/ \E c \in Conditions : DescribeCondition(c)

SpecCond == InitCond /\ [][NextCond]_vars

-----------------------------------------------------------------------------
(* Claims about the condition evaluator *)

cv_var_part == DropFirst(cv_condition, 4)
cv_first_name == SubSeq(cv_var_part, 1, find_char(cv_var_part, "_") - 1)

\* C5: for a condition "var_" + X with X exactly a variable name the result is
\* the truthiness of that variable (true / yes / 1, case-insensitively), also
\* when splitting X at its first underscore names another variable; when
\* neither X nor that prefix is a variable the result is false.
C5_ExactNameIsTruthiness ==
    (cv_pc = "evaluated" /\ starts_with(cv_condition, str_var_)) =>
        /\ map_has(cv_variables, cv_var_part) =>
              cv_result = (to_lowercase(cv_variables[cv_var_part])
                              \in {str_true, str_yes, str_one})
        /\ (~map_has(cv_variables, cv_var_part)
              /\ ~map_has(cv_variables, cv_first_name)) => cv_result = FALSE

\* C5 witness: the exact name wins although the split would match too
C5_Witness ==
    /\ cv_pc = "evaluated" /\ cv_result = FALSE
    /\ cv_condition = str_var_ \o str_with_tests
    /\ map_has(cv_variables, str_with_tests)
    /\ map_has(cv_variables, str_with)
    /\ cv_variables[str_with] = str_tests

\* C6 (as stated): for every variable N, underscores allowed in N, and every V
\* with N_V not a variable, "var_N_V" is true iff N's value is V verbatim or V
\* with underscores turned into hyphens.
C6_ValueComparisonAnyName ==
    cv_pc = "evaluated" =>
        \A n \in DOMAIN cv_variables :
            (/\ starts_with(cv_condition, str_var_ \o n \o <<"_">>)
             /\ ~map_has(cv_variables, cv_var_part))
            => LET v == DropFirst(cv_condition, 4 + Len(n) + 1)
               IN cv_result = (cv_variables[n] \in {v, replace(v, <<"_">>, <<"-">>)})

\* C6 (amended): the same for variable names N without an underscore and
\* conditions without trailing whitespace.
C6_ValueComparisonPlainName ==
    cv_pc = "evaluated" =>
        \A n \in DOMAIN cv_variables :
            (/\ starts_with(cv_condition, str_var_ \o n \o <<"_">>)
             /\ ~map_has(cv_variables, cv_var_part)
             /\ ~contains_char(n, "_")
             /\ trim_end(cv_condition) = cv_condition)
            => LET v == DropFirst(cv_condition, 4 + Len(n) + 1)
               IN cv_result = (cv_variables[n] \in {v, replace(v, <<"_">>, <<"-">>)})

\* C6 witness: a multi-word value matched through the hyphen conversion
C6_Witness ==
    /\ cv_pc = "evaluated" /\ cv_result = TRUE
    /\ cv_condition = str_var_ \o str_style \o <<"_">> \o str_styled_components
    /\ map_has(cv_variables, str_style)
    /\ cv_variables[str_style] = str_styled_hyphen_components

\* C22: evaluate_file_condition is total: for every condition string and
\* every variables map it returns a boolean and never panics, whatever the
\* length of the condition and wherever its underscores fall.
C22_EvaluateTotal ==
    cv_pc = "evaluated" =>
        /\ ~cv_panicked
        /\ cv_result \in BOOLEAN
        /\ cv_result
             = evaluate_file_condition_outcome(cv_condition, cv_variables).value

\* C22 witness: a condition whose only underscore after the prefix is its
\* last byte and follows a two-byte character has been evaluated
C22_Witness ==
    /\ cv_pc = "evaluated"
    /\ cv_condition = str_var_ \o <<e_acute, "_">>
    /\ ~cv_panicked
    /\ cv_result = FALSE

\* C29: the condition display of describe agrees with the evaluator: for every
\* file condition beginning with "var_", when the single assignment that
\* format_condition shows as "--var NAME=VALUE" is the only variable set,
\* evaluate_file_condition returns true for that condition. File conditions
\* are manifest values, which the parser has trimmed.
C29_DisplayAgreesWithEvaluator ==
    (cv_pc = "described" /\ trim(cv_condition) = cv_condition) => cv_result = TRUE

-----------------------------------------------------------------------------
(* SpecFeature: TemplateEngine::generate_feature *)

str_dot_json == <<".","j","s","o","n">>
str_clean == <<"c","l","e","a","n">>
str_hooks == <<"h","o","o","k","s">>
str_hook == <<"h","o","o","k">>
str_comp == <<"c","o","m","p">>
str_brace_name == <<"{","n","a","m","e","}">>

\* ArchitectureConfig::load_from_file: let filename
architecture_filename(architecture_name) ==
    IF architecture_name = str_default
    THEN str_default \o str_dot_json
    ELSE architecture_name \o str_dot_json

ArchitectureStructure(path, template, filename_pattern) ==
    [path |-> path, template |-> template, filename_pattern |-> filename_pattern]

\* what the two manifests of architectures_dir parse to
CleanArch ==
    [name |-> str_clean,
     structure |-> <<ArchitectureStructure(str_hooks, str_hook, str_use \o str_brace_name),
                     ArchitectureStructure(<<>>, str_comp, str_brace_name \o str_Page)>>]
DefaultArch ==
    [name |-> str_default,
     structure |-> <<ArchitectureStructure(str_comp, str_comp, str_brace_name)>>]

parse_json(file) == IF file = str_clean \o str_dot_json THEN CleanArch ELSE DefaultArch

ArchitectureNames == {str_clean, str_default}
ArchitectureFiles == {architecture_filename(a) : a \in ArchitectureNames}
TemplateNames == {str_hook, str_comp}
FeatureUniverse == {f_conf, f_plain, f_hook}
FeatureTrees == {t \in SUBSET FeatureUniverse : Cardinality(t) < MaxFiles}

process_filename_pattern(pattern, n) ==
    LET smart_names == process_smart_names(n)
        r1 == replace(pattern, str_use \o str_brace_name, smart_names.hook_name)
        r2 == replace(r1, str_brace_name \o str_Context, smart_names.context_name)
        r3 == replace(r2, str_brace_name \o str_Provider, smart_names.provider_name)
        r4 == replace(r3, str_brace_name \o str_Page, smart_names.page_name)
    IN replace(r4, str_brace_name, n)

\* Path::join on relative paths
path_join(dir, file) == IF dir = <<>> THEN file ELSE dir \o <<"/">> \o file

structure_of(i) == ft_arch.structure[i]

\* process_feature_template_directory: let output_file
feature_output_file(i, f) ==
    path_join(structure_of(i).path,
              apply_smart_filename_replacements(file_name(f), ft_name,
                                                process_smart_names(ft_name)))

\* what the job of file f of entry i writes, and where
feature_final_output_path(i, f) ==
    determine_output_path(feature_output_file(i, f), ft_name,
                          process_smart_names(ft_name))
feature_rendered_content(f) ==
    render_template(
        apply_smart_replacements(template_content(f), ft_name,
                                 process_smart_names(ft_name)),
        create_template_data(ft_name, DefaultConfig, <<>>))

InitFeature ==
    /\ ft_name \in GenNames
    /\ ft_architecture_name \in ArchitectureNames
    /\ ft_arch_files \in SUBSET ArchitectureFiles
    /\ ft_unparsable \in SUBSET ft_arch_files
    /\ \E present \in SUBSET TemplateNames : ft_templates \in [present -> FeatureTrees]
    /\ ft_arch = NoArch
    /\ ft_pc = "load"
    /\ ft_entry = 0
    /\ ft_visited = {}
    /\ ft_tasks = <<>>
    /\ ft_awaited = 0
    /\ ft_job = EmptyMap
    /\ ft_disk = EmptyMap
    /\ ft_result = "none"
    /\ ft_error = NoFeatureError
    /\ NonFtIdle

FeatureFail(kind, entry) ==
    /\ ft_result' = "err"
    /\ ft_error' = [kind |-> kind, entry |-> entry]
    /\ ft_pc' = "done"

\* read_to_string and parse_json of the chosen manifest file
load_chosen(file) ==
    \/ /\ file \notin ft_unparsable
       /\ ft_arch' = parse_json(file)
       /\ ft_pc' = "mkdir"
       /\ UNCHANGED <<ft_result, ft_error>>
    \/ /\ file \in ft_unparsable
       /\ FeatureFail("parse", 0)
       /\ UNCHANGED ft_arch
    \/ /\ FeatureFail("read", 0)
       /\ UNCHANGED ft_arch

\* the same, without the fallback to default.json
LoadArchitecture_no_fallback ==
    /\ ft_pc = "load"
    /\ LET requested == architecture_filename(ft_architecture_name)
       IN IF requested \in ft_arch_files
          THEN load_chosen(requested)
          ELSE FeatureFail("not_found", 0) /\ UNCHANGED ft_arch
    /\ UNCHANGED <<ft_name, ft_architecture_name, ft_arch_files, ft_unparsable,
                   ft_templates, ft_entry, ft_visited, ft_tasks, ft_awaited,
                   ft_job, ft_disk, nonFtVars>>

\* config.load_architecture(architecture_name)
LoadArchitecture ==
    /\ ft_pc = "load"
    /\ LET requested == architecture_filename(ft_architecture_name)
           default == str_default \o str_dot_json
       IN IF requested \in ft_arch_files
          THEN load_chosen(requested)
          ELSE IF default \in ft_arch_files
          THEN load_chosen(default)
          ELSE FeatureFail("not_found", 0) /\ UNCHANGED ft_arch
    /\ UNCHANGED <<ft_name, ft_architecture_name, ft_arch_files, ft_unparsable,
                   ft_templates, ft_entry, ft_visited, ft_tasks, ft_awaited,
                   ft_job, ft_disk, nonFtVars>>

\* fs::create_dir_all(&output_path), then the loop over arch_config.structure
CreateOutputDirectory ==
    /\ ft_pc = "mkdir"
    /\ \/ /\ ft_pc' = "structure"
          /\ ft_entry' = 1
          /\ UNCHANGED <<ft_result, ft_error>>
       \/ /\ FeatureFail("mkdir", 0)
          /\ UNCHANGED ft_entry
    /\ UNCHANGED <<ft_name, ft_architecture_name, ft_arch_files, ft_unparsable,
                   ft_templates, ft_arch, ft_visited, ft_tasks, ft_awaited,
                   ft_job, ft_disk, nonFtVars>>

\* generate_feature_structure up to the walk: structure directory, template check
StartStructure ==
    /\ ft_pc = "structure"
    /\ ft_entry <= Len(ft_arch.structure)
    /\ \/ /\ structure_of(ft_entry).path # <<>>     \* create_dir_all fails
          /\ FeatureFail("structure_dir", ft_entry)
          /\ UNCHANGED ft_job
       \/ IF map_has(ft_templates, structure_of(ft_entry).template)
          THEN /\ ft_pc' = "walk"
               /\ ft_job' = [k \in (DOMAIN ft_job) \cup
                                   {<<ft_entry, f>> :
                                       f \in ft_templates[structure_of(ft_entry).template]}
                              |-> IF k \in DOMAIN ft_job THEN ft_job[k] ELSE "none"]
               /\ UNCHANGED <<ft_result, ft_error>>
          ELSE /\ FeatureFail("template_not_found", ft_entry)
               /\ UNCHANGED ft_job
    /\ UNCHANGED <<ft_name, ft_architecture_name, ft_arch_files, ft_unparsable,
                   ft_templates, ft_arch, ft_entry, ft_visited, ft_tasks,
                   ft_awaited, ft_disk, nonFtVars>>

feature_tree == ft_templates[structure_of(ft_entry).template]

\* one iteration of the WalkDir loop of process_feature_template_directory
FeatureWalkEntry(f) ==
    /\ ft_pc = "walk"
    /\ f \in feature_tree \ ft_visited
    /\ ft_visited' = ft_visited \cup {f}
    /\ ft_tasks' = Append(ft_tasks, <<ft_entry, f>>)        \* tokio::spawn
    /\ ft_job' = [ft_job EXCEPT ![<<ft_entry, f>>] = "spawned"]
    /\ UNCHANGED <<ft_name, ft_architecture_name, ft_arch_files, ft_unparsable,
                   ft_templates, ft_arch, ft_pc, ft_entry, ft_awaited, ft_disk,
                   ft_result, ft_error, nonFtVars>>

\* the walk yields an error entry
FeatureWalkError ==
    /\ ft_pc = "walk"
    /\ FeatureFail("walk", ft_entry)
    /\ UNCHANGED <<ft_name, ft_architecture_name, ft_arch_files, ft_unparsable,
                   ft_templates, ft_arch, ft_entry, ft_visited, ft_tasks,
                   ft_awaited, ft_job, ft_disk, nonFtVars>>

FeatureWalkDone ==
    /\ ft_pc = "walk"
    /\ ft_visited = feature_tree
    /\ ft_pc' = "await"
    /\ UNCHANGED <<ft_name, ft_architecture_name, ft_arch_files, ft_unparsable,
                   ft_templates, ft_arch, ft_entry, ft_visited, ft_tasks,
                   ft_awaited, ft_job, ft_disk, ft_result, ft_error, nonFtVars>>

\* the same, moving on from a JoinHandle whose job is still running
FeatureAwaitTask_no_wait ==
    /\ ft_pc = "await"
    /\ ft_awaited < Len(ft_tasks)
    /\ IF ft_job[ft_tasks[ft_awaited + 1]] = "failed"
       THEN FeatureFail("job", ft_entry) /\ UNCHANGED ft_awaited
       ELSE ft_awaited' = ft_awaited + 1 /\ UNCHANGED <<ft_pc, ft_result, ft_error>>
    /\ UNCHANGED <<ft_name, ft_architecture_name, ft_arch_files, ft_unparsable,
                   ft_templates, ft_arch, ft_entry, ft_visited, ft_tasks,
                   ft_job, ft_disk, nonFtVars>>

\* task.await?? on the next JoinHandle of the entry
FeatureAwaitTask ==
    /\ ft_pc = "await"
    /\ ft_awaited < Len(ft_tasks)
    /\ ft_job[ft_tasks[ft_awaited + 1]] \in Finished
    /\ IF ft_job[ft_tasks[ft_awaited + 1]] = "failed"
       THEN FeatureFail("job", ft_entry) /\ UNCHANGED ft_awaited
       ELSE ft_awaited' = ft_awaited + 1 /\ UNCHANGED <<ft_pc, ft_result, ft_error>>
    /\ UNCHANGED <<ft_name, ft_architecture_name, ft_arch_files, ft_unparsable,
                   ft_templates, ft_arch, ft_entry, ft_visited, ft_tasks,
                   ft_job, ft_disk, nonFtVars>>

\* the entry's JoinHandles are all awaited: the loop goes to the next entry
FeatureAwaitDone ==
    /\ ft_pc = "await"
    /\ ft_awaited = Len(ft_tasks)
    /\ ft_pc' = IF ft_entry < Len(ft_arch.structure) THEN "structure" ELSE "show"
    /\ ft_entry' = IF ft_entry < Len(ft_arch.structure) THEN ft_entry + 1 ELSE ft_entry
    /\ ft_visited' = {}
    /\ ft_tasks' = <<>>
    /\ ft_awaited' = 0
    /\ UNCHANGED <<ft_name, ft_architecture_name, ft_arch_files, ft_unparsable,
                   ft_templates, ft_arch, ft_job, ft_disk, ft_result, ft_error,
                   nonFtVars>>

\* show_generated_feature_files, then Ok(())
ShowGeneratedFeatureFiles ==
    /\ ft_pc = "show"
    /\ ft_result' = "ok"
    /\ ft_pc' = "done"
    /\ UNCHANGED <<ft_name, ft_architecture_name, ft_arch_files, ft_unparsable,
                   ft_templates, ft_arch, ft_entry, ft_visited, ft_tasks,
                   ft_awaited, ft_job, ft_disk, ft_error, nonFtVars>>

\* process_template_file: read_template
FeatureJobRead(k) ==
    /\ ft_job[k] = "spawned"
    /\ \/ ft_job' = [ft_job EXCEPT ![k] = "read"]
       \/ ft_job' = [ft_job EXCEPT ![k] = "failed"]
    /\ UNCHANGED <<ft_name, ft_architecture_name, ft_arch_files, ft_unparsable,
                   ft_templates, ft_arch, ft_pc, ft_entry, ft_visited, ft_tasks,
                   ft_awaited, ft_disk, ft_result, ft_error, nonFtVars>>

\* create_template_data with the default config, apply_smart_replacements,
\* render_template
FeatureJobRender(k) ==
    /\ ft_job[k] = "read"
    /\ ft_job' = [ft_job EXCEPT ![k] =
           IF render_fails(apply_smart_replacements(template_content(k[2]), ft_name,
                                                    process_smart_names(ft_name)),
                           create_template_data(ft_name, DefaultConfig, <<>>))
           THEN "failed" ELSE "rendered"]
    /\ UNCHANGED <<ft_name, ft_architecture_name, ft_arch_files, ft_unparsable,
                   ft_templates, ft_arch, ft_pc, ft_entry, ft_visited, ft_tasks,
                   ft_awaited, ft_disk, ft_result, ft_error, nonFtVars>>

\* determine_output_path, write_output
FeatureJobWrite(k) ==
    /\ ft_job[k] = "rendered"
    /\ \/ /\ ft_disk' = map_insert(ft_disk, feature_final_output_path(k[1], k[2]),
                                   feature_rendered_content(k[2]))
          /\ ft_job' = [ft_job EXCEPT ![k] = "written"]
       \/ /\ ft_job' = [ft_job EXCEPT ![k] = "failed"]
          /\ UNCHANGED ft_disk
    /\ UNCHANGED <<ft_name, ft_architecture_name, ft_arch_files, ft_unparsable,
                   ft_templates, ft_arch, ft_pc, ft_entry, ft_visited, ft_tasks,
                   ft_awaited, ft_result, ft_error, nonFtVars>>

NextFeature ==
    \/ LoadArchitecture
    \/ CreateOutputDirectory
    \/ StartStructure
    \/ \E f \in FeatureUniverse : FeatureWalkEntry(f)
    \/ FeatureWalkError
    \/ FeatureWalkDone
    \/ FeatureAwaitTask
    \/ FeatureAwaitDone
    \/ ShowGeneratedFeatureFiles
    \/ \E k \in DOMAIN ft_job : FeatureJobRead(k)
    \/ \E k \in DOMAIN ft_job : FeatureJobRender(k)
    \/ \E k \in DOMAIN ft_job : FeatureJobWrite(k)

SpecFeature == InitFeature /\ [][NextFeature]_vars

-----------------------------------------------------------------------------
(* Claims about generate_feature *)

\* C14: no render job is spawned for, and so no output file is produced from,
\* a manifest file (.conf) of a template directory.
C14_ManifestNeverGenerated ==
    \A k \in DOMAIN ft_job : file_name(k[2]) = str_dot_conf => ft_job[k] = "none"

\* C15: the name of every output file of a structure entry begins with that
\* entry's filename_pattern after the substitution of its {name} tokens.
C15_FilenameFromPattern ==
    \A k \in DOMAIN ft_job :
        ft_job[k] = "written" =>
            starts_with(file_name(feature_final_output_path(k[1], k[2])),
                        process_filename_pattern(structure_of(k[1]).filename_pattern,
                                                 ft_name))

\* C16: structure entries are generated in manifest order, one at a time: a
\* later entry is started only when every file job of every earlier entry has
\* completed, and after an entry has failed no later entry is started.
C16_EntriesInOrder ==
    /\ \A k \in DOMAIN ft_job : k[1] <= ft_entry
    /\ \A k1, k2 \in DOMAIN ft_job :
          k1[1] < k2[1] => ft_job[k1] = "written"
    /\ (ft_result = "err" /\ ft_error.entry > 0) =>
          /\ ft_entry = ft_error.entry
          /\ \A k \in DOMAIN ft_job : k[1] <= ft_error.entry

\* C16 witness: a second entry's job has run after the first entry's job
\* completed
C16_Witness ==
    /\ ft_result = "ok"
    /\ \E k1, k2 \in DOMAIN ft_job :
          k1[1] = 1 /\ k2[1] = 2 /\ ft_job[k1] = "written" /\ ft_job[k2] = "written"

requested_file == architecture_filename(ft_architecture_name)
default_file == str_default \o str_dot_json
chosen_file == IF requested_file \in ft_arch_files THEN requested_file ELSE default_file
load_failed == ft_error.kind \in {"not_found", "read", "parse"}

\* C17 (as stated): the requested manifest is returned when it exists, the
\* default manifest when the requested one is absent and the default exists,
\* and loading fails only when neither exists.
C17_LoadOrFallback ==
    ft_pc # "load" =>
        /\ requested_file \in ft_arch_files =>
              ft_arch = parse_json(requested_file) /\ ~load_failed
        /\ (requested_file \notin ft_arch_files /\ default_file \in ft_arch_files) =>
              ft_arch = parse_json(default_file) /\ ~load_failed
        /\ load_failed <=>
              (requested_file \notin ft_arch_files /\ default_file \notin ft_arch_files)

\* C17 (amended): the file loaded is the requested manifest when it exists and
\* else the default manifest when that exists; it is returned when it can be
\* read and parsed, and loading fails otherwise, as it does when neither exists.
C17_LoadChosenOrFail ==
    ft_pc # "load" =>
        /\ (ft_error.kind = "not_found") <=>
              (requested_file \notin ft_arch_files /\ default_file \notin ft_arch_files)
        /\ ~load_failed => ft_arch = parse_json(chosen_file)
        /\ load_failed => ft_arch = NoArch /\ ft_result = "err"
        /\ ft_error.kind = "parse" => chosen_file \in ft_unparsable
        /\ (chosen_file \in ft_arch_files /\ chosen_file \in ft_unparsable) => load_failed

\* C17 witness: the requested manifest is absent and the default one was loaded
C17_Witness ==
    /\ ft_pc # "load"
    /\ ft_architecture_name = str_clean
    /\ requested_file \notin ft_arch_files
    /\ default_file \in ft_arch_files
    /\ ft_arch = DefaultArch


-----------------------------------------------------------------------------
(* SpecParse: TemplateEngine::parse_template_config over bounded manifests *)

MaxLines == 3

str_metadata == <<"m","e","t","a","d","a","t","a">>
str_options == <<"o","p","t","i","o","n","s">>
str_files == <<"f","i","l","e","s">>
str_description == <<"d","e","s","c","r","i","p","t","i","o","n">>
str_environment == <<"e","n","v","i","r","o","n","m","e","n","t">>
str_enable_timestamps == <<"e","n","a","b","l","e","_","t","i","m","e","s","t","a","m","p","s">>
str_enable_uuid == <<"e","n","a","b","l","e","_","u","u","i","d">>
str__options == <<"_","o","p","t","i","o","n","s">>
str__type == <<"_","t","y","p","e">>
str__description == <<"_","d","e","s","c","r","i","p","t","i","o","n">>

\* the lines a manifest is made of
ManifestLines ==
    {<<"[","m","e","t","a","d","a","t","a","]">>, <<"[","o","p","t","i","o","n","s","]">>, <<"[","f","i","l","e","s","]">>, <<"[","c","u","s","t","o","m","]">>,
     <<"n","a","m","e","=","a">>, <<" ","n","a","m","e"," ","="," ","\"","b","\""," ","#"," ","s","e","c","o","n","d">>, <<"d","e","s","c","r","i","p","t","i","o","n","=","d">>, <<"a","u","t","h","o","r","=","m","e">>,
     <<"e","n","v","i","r","o","n","m","e","n","t","=","p","r","o","d">>, <<"e","n","a","b","l","e","_","u","u","i","d","=","f","a","l","s","e">>, <<"v","a","r","_","x","=","1">>,
     <<"s","t","y","l","e","_","o","p","t","i","o","n","s","=","s","c","s","s",","," ","c","s","s",",">>, <<"s","t","y","l","e","_","t","y","p","e","=","e","n","u","m">>, <<"#"," ","n","a","m","e","=","c">>}

Manifest_contents == UNION {[1..k -> ManifestLines] : k \in 0..MaxLines}

\* str::trim_matches(c)
RECURSIVE trim_matches(_, _)
trim_matches(s, c) ==
    IF s # <<>> /\ Head(s) = c THEN trim_matches(Tail(s), c)
    ELSE IF s # <<>> /\ s[Len(s)] = c THEN trim_matches(DropLast(s, 1), c)
    ELSE s

\* value.parse::<bool>().unwrap_or(true)
parse_bool_or_true(value) == IF value = str_false THEN FALSE ELSE TRUE

\* parse_metadata_section
parse_metadata_section(cfg, key, value) ==
    IF key = str_name THEN [cfg EXCEPT !.metadata.name = value]
    ELSE IF key = str_description THEN [cfg EXCEPT !.metadata.description = value]
    ELSE cfg

\* value.split(',').map(trim).filter(non-empty).collect()
comma_list(value) ==
    LET pieces == split_on(value, ",", <<>>, <<>>)
        trimmed == [i \in 1..Len(pieces) |-> trim(pieces[i])]
    IN SelectSeq(trimmed, LAMBDA v : v # <<>>)

\* parse_options_section
parse_options_section(cfg, key, value) ==
    IF ends_with(key, str__options)
    THEN LET var_name == DropLast(key, Len(str__options))
         IN [cfg EXCEPT !.options_metadata =
                map_insert(@, var_name,
                           [entry_or_default(@, var_name)
                               EXCEPT !.possible_values = comma_list(value)])]
    ELSE IF ends_with(key, str__type)
    THEN LET var_name == DropLast(key, Len(str__type))
         IN [cfg EXCEPT !.options_metadata =
                map_insert(@, var_name,
                           [entry_or_default(@, var_name) EXCEPT !.var_type = value])]
    ELSE IF ends_with(key, str__description)
    THEN LET var_name == DropLast(key, Len(str__description))
         IN [cfg EXCEPT !.options_metadata =
                map_insert(@, var_name,
                           [entry_or_default(@, var_name) EXCEPT !.description = value])]
    ELSE [cfg EXCEPT !.variables = map_insert(@, key, value)]

\* parse_root_config
parse_root_config(cfg, key, value) ==
    IF key = str_environment THEN [cfg EXCEPT !.environment = value]
    ELSE IF key = str_enable_timestamps
    THEN [cfg EXCEPT !.enable_timestamps = parse_bool_or_true(value)]
    ELSE IF key = str_enable_uuid
    THEN [cfg EXCEPT !.enable_uuid = parse_bool_or_true(value)]
    ELSE IF starts_with(key, str_var_)
    THEN [cfg EXCEPT !.variables = map_insert(@, DropFirst(key, 4), value)]
    ELSE cfg

is_comment_or_blank(line) == line = <<>> \/ Head(line) = "#"
is_section_header(line) == line # <<>> /\ Head(line) = "[" /\ line[Len(line)] = "]"

\* the key and the value of a "key=value" line, as the loop body derives them
line_key(line) == trim(SubSeq(line, 1, find_char(line, "=") - 1))
line_value(line) ==
    LET raw == DropFirst(line, find_char(line, "="))
        before_comment == split_on(raw, "#", <<>>, <<>>)[1]
    IN trim_matches(trim_matches(trim(before_comment), "\""), "'")

\* the loop of parse_template_config over the remaining lines
RECURSIVE parse_lines(_, _, _)
parse_lines(lines, cfg, current_section) ==
    IF lines = <<>> THEN cfg
    ELSE LET line == trim(Head(lines))
             rest == Tail(lines)
         IN IF is_comment_or_blank(line)
            THEN parse_lines(rest, cfg, current_section)
            ELSE IF is_section_header(line)
            THEN parse_lines(rest, cfg, SubSeq(line, 2, Len(line) - 1))
            ELSE IF contains_char(line, "=")
            THEN LET key == line_key(line)
                     value == line_value(line)
                 IN parse_lines(rest,
                        IF current_section = str_metadata
                        THEN parse_metadata_section(cfg, key, value)
                        ELSE IF current_section = str_options
                        THEN parse_options_section(cfg, key, value)
                        ELSE IF current_section = str_files
                        THEN [cfg EXCEPT !.file_filters = map_insert(@, key, value)]
                        ELSE parse_root_config(cfg, key, value),
                        current_section)
            ELSE parse_lines(rest, cfg, current_section)

\* parse_template_config
parse_template_config(content) == parse_lines(content, DefaultConfig, <<>>)

InitParse ==
    /\ ps_content \in Manifest_contents
    /\ ps_config = NoConfig
    /\ ps_pc = "content"
    /\ NonPsIdle

\* load_template_config on an existing .conf: parse_template_config(&content)
ParseTemplateConfig ==
    /\ ps_pc = "content"
    /\ ps_pc' = "parsed"
    /\ ps_config' = parse_template_config(ps_content)
    /\ UNCHANGED <<ps_content, nonPsVars>>

NextParse ==
    \/ ParseTemplateConfig

SpecParse == InitParse /\ [][NextParse]_vars

-----------------------------------------------------------------------------
(* Claims about the manifest parser *)

\* the section each line of the content lies in: the name in the last header
\* before it, <<>> before any header
RECURSIVE section_at(_, _)
section_at(content, i) ==
    IF i = 0 THEN <<>>
    ELSE LET line == trim(content[i])
         IN IF ~is_comment_or_blank(line) /\ is_section_header(line)
            THEN SubSeq(line, 2, Len(line) - 1)
            ELSE section_at(content, i - 1)

is_assignment(line) ==
    LET l == trim(line)
    IN ~is_comment_or_blank(l) /\ ~is_section_header(l) /\ contains_char(l, "=")

\* the lines of [metadata] that assign the given key, in file order
metadata_lines(content, key) ==
    SelectSeq([i \in 1..Len(content) |-> i],
              LAMBDA i : /\ is_assignment(content[i])
                         /\ section_at(content, i) = str_metadata
                         /\ line_key(trim(content[i])) = key)

\* C25: when the [metadata] section holds several "name" (or several
\* "description") lines, the parsed manifest keeps the value of the first one.
C25_FirstMetadataWins ==
    ps_pc = "parsed" =>
        /\ metadata_lines(ps_content, str_name) # <<>> =>
              ps_config.metadata.name
                 = line_value(trim(ps_content[metadata_lines(ps_content, str_name)[1]]))
        /\ metadata_lines(ps_content, str_description) # <<>> =>
              ps_config.metadata.description
                 = line_value(trim(ps_content[metadata_lines(ps_content, str_description)[1]]))

\* the lines the parser is to ignore: assignments under a section other than
\* metadata, options and files, and assignments of unknown keys in [metadata]
is_ignored_line(content, i) ==
    /\ is_assignment(content[i])
    /\ LET section == section_at(content, i)
       IN \/ section \notin {<<>>, str_metadata, str_options, str_files}
          \/ /\ section = str_metadata
             /\ line_key(trim(content[i])) \notin {str_name, str_description}

without_ignored_lines(content) ==
    LET kept == SelectSeq([i \in 1..Len(content) |-> i],
                          LAMBDA i : ~is_ignored_line(content, i))
    IN [k \in 1..Len(kept) |-> content[kept[k]]]

\* C26: unknown sections and keys are ignored by the manifest parser:
\* key=value lines under any section other than metadata, options or files,
\* and unknown keys inside [metadata], leave the parsed manifest's variables,
\* options, file rules, metadata, environment and timestamp/uuid flags as they
\* are without those lines.
C26_UnknownIgnored ==
    ps_pc = "parsed" =>
        ps_config = parse_template_config(without_ignored_lines(ps_content))

====
